---- MODULE Spec2Model ----
(***************************************************************************)
(* A model of the neural-nexus-pkg client core (core/NeuralNexus.ts):      *)
(* construction and configuration, the bearer identity, the request        *)
(* methods with the response interceptor, the inherited event emitter,     *)
(* and the streaming decoder.                                              *)
(*                                                                         *)
(* JavaScript values are modelled as strings; Undef stands for             *)
(* `undefined`.  Errors, requests, payloads and operations are records.    *)
(***************************************************************************)
EXTENDS Naturals, Sequences, FiniteSets, TLC

VARIABLES
    phase,          \* "none" before `new NeuralNexus`, then "ready" or "threw"
    given,          \* the configuration handed to the constructor
    thrown,         \* what the constructor threw (NoError when it did not)
    config,         \* this.config
    axiosInstance,  \* this.axiosInstance: created flag, baseURL, timeout, headers
    token,          \* this.token
    lastWrite,      \* the argument of the last setToken, Null after clearToken
    listeners,      \* the emitter's registry: event -> listeners in order
    calls,          \* the request calls in flight, in dispatch order
    lastOp,         \* what the last operation on the client did
    returned,       \* the value the last getConfig() call returned
    closure,        \* a log of close(), kept when closure.log is set: whether
                    \* one was called and whether one returned, and the
                    \* registrations made since
    heap,           \* the objects a configuration refers to (storageConfig,
                    \* authConfig), by reference
    currentUser     \* Auth.currentUser of the Auth manager built on the client

vars == <<phase, given, thrown, config, axiosInstance, token, lastWrite,
          listeners, calls, lastOp, returned, closure, heap, currentUser>>

(***************************************************************************)
(* JavaScript values                                                       *)
(***************************************************************************)
Undef == "<undefined>"
Null == "<null>"

\* The falsy strings of the model: undefined, null and the empty string.
Falsy(v) == v \in {Undef, Null, ""}

\* a || b
Or(a, b) == IF Falsy(a) THEN b ELSE a

\* `Bearer ${v}`
Bearer(v) == "Bearer " \o v

(***************************************************************************)
(* types/index.ts                                                          *)
(***************************************************************************)
NoDetails == [kind |-> "undefined"]

\* new NeuralNexusError(message, code, details)
NeuralNexusError(message, code, details) ==
    [type |-> "NeuralNexusError", message |-> message, code |-> code,
     details |-> details]

NoError == [type |-> "none"]

\* error instanceof NeuralNexusError
IsNeuralNexusError(e) == e.type = "NeuralNexusError"

\* enum NeuralNexusEvent
CONNECTED == "connected"
DISCONNECTED == "disconnected"
AUTH_STATE_CHANGED == "authStateChanged"
ERROR == "error"

(***************************************************************************)
(* The inherited event emitter (class NeuralNexus extends EventEmitter,    *)
(* Node.js `events`)                                                       *)
(***************************************************************************)
Events == {CONNECTED, DISCONNECTED, ERROR}

\* The events of the registry: those and the one the Auth manager emits.
RegistryEvents == Events \cup {AUTH_STATE_CHANGED}

\* The caller's listener functions, each with an identity.  What a listener
\* does when invoked is the caller's code: R raises, the others return.
ListenerIds == {"A", "B", "R"}
Raises(l) == l = "R"
ListenerException(l) == [type |-> "Error", message |-> "listener failed", by |-> l]

\* The payloads a caller emits; emit(event) without one passes undefined.
NoPayload == [type |-> "undefined"]
Payloads == {NoPayload, [type |-> "payload", value |-> "p1"]}

NoListeners == [e \in RegistryEvents |-> <<>>]


Registrations(reg) ==
    Len(reg[CONNECTED]) + Len(reg[DISCONNECTED]) + Len(reg[ERROR])
        + Len(reg[AUTH_STATE_CHANGED])

HasRaiser(regs) == \E i \in 1..Len(regs) : Raises(regs[i])

FirstRaiser(regs) ==
    CHOOSE i \in 1..Len(regs) :
        Raises(regs[i]) /\ \A j \in 1..(i - 1) : ~Raises(regs[j])

\* A plausible slip: the listeners of an event kept as a set, so that a
\* listener registered twice is called once.
InvokedOnce(regs) ==
    LET first == {i \in 1..Len(regs) : \A j \in 1..(i - 1) : regs[j] # regs[i]}
        kept[i \in 0..Len(regs)] ==
            IF i = 0 THEN <<>>
            ELSE IF i \in first THEN Append(kept[i - 1], regs[i]) ELSE kept[i - 1]
        all == kept[Len(regs)]
    IN IF HasRaiser(all) THEN SubSeq(all, 1, FirstRaiser(all)) ELSE all

\* A plausible slip: every listener wrapped in its own try/catch.
InvokedIsolated(regs) == regs

\* emit() calls the listeners of the event in registration order, on a copy of
\* the list, with no try/catch around a call: the first listener that raises
\* ends the emission.  The listeners invoked, in order:
Invoked(regs) ==
    IF HasRaiser(regs) THEN SubSeq(regs, 1, FirstRaiser(regs)) ELSE regs

\* What emit(event, payload) throws (NoError when it returns): the exception of
\* the listener that raised, or, for 'error' with no listener registered, the
\* payload itself when it is an Error and an "Unhandled error." otherwise.
EmitException(event, payload, regs) ==
    IF regs = <<>>
    THEN IF event # ERROR THEN NoError
         ELSE IF payload.type \in {"NeuralNexusError", "Error"} THEN payload
         ELSE [type |-> "Error", message |-> "Unhandled error.", context |-> payload]
    ELSE IF HasRaiser(regs) THEN ListenerException(regs[FirstRaiser(regs)])
    ELSE NoError

\* One emission as the model records it.
Emission(event, payload, regs) ==
    [event |-> event, payload |-> payload, registered |-> regs,
     invoked |-> Invoked(regs), exception |-> EmitException(event, payload, regs)]

\* An operation record names the operation before it and whether that one
\* returned normally.
Prev == [op |-> lastOp.op, ok |-> lastOp.ok]

\* A plausible slip: every registration of the listener filtered out.
RemoveAll(regs, l) == SelectSeq(regs, LAMBDA x : x # l)

\* The last occurrence of l in regs removed (removeListener takes out the most
\* recently added instance, at most one).
RemoveLast(regs, l) ==
    IF \E i \in 1..Len(regs) : regs[i] = l
    THEN LET k == CHOOSE i \in 1..Len(regs) :
                      regs[i] = l /\ \A j \in (i + 1)..Len(regs) : regs[j] # l
         IN SubSeq(regs, 1, k - 1) \o SubSeq(regs, k + 1, Len(regs))
    ELSE regs

\* The history of close() before any call of it.  called: close() was called;
\* sinceCall: the registrations made since the last call; returned: a close()
\* returned; dropped: the events that had listeners when it did;
\* registered: the registrations made since that close().
NeverClosed ==
    [log |-> FALSE, called |-> FALSE, sinceCall |-> NoListeners,
     returned |-> FALSE, dropped |-> {}, registered |-> NoListeners]

\* The log after on(e, l), off(e, l) and close() on the registry reg.
LoggedOn(h, e, l) ==
    IF ~h.log THEN h
    ELSE [h EXCEPT !.registered[e] = IF h.returned THEN Append(@, l) ELSE @,
                   !.sinceCall[e] = IF h.called THEN Append(@, l) ELSE @]

LoggedOff(h, e, l) ==
    IF ~h.log THEN h
    ELSE [h EXCEPT !.registered[e] = IF h.returned THEN RemoveLast(@, l) ELSE @,
                   !.sinceCall[e] = IF h.called THEN RemoveLast(@, l) ELSE @]

LoggedClose(h, reg) ==
    IF ~h.log THEN h
    ELSE IF HasRaiser(reg[DISCONNECTED])
    THEN [h EXCEPT !.called = TRUE, !.sinceCall = NoListeners]
    ELSE [log |-> TRUE, called |-> TRUE, sinceCall |-> NoListeners,
          returned |-> TRUE, dropped |-> {e \in Events : reg[e] # <<>>},
          registered |-> NoListeners]

(***************************************************************************)
(* Construction                                                            *)
(***************************************************************************)
ProductionUrl == "https://api.neuralnexus.ai/v1"
DevelopmentUrl == "https://api.dev.neuralnexus.ai/v1"
CustomUrl == "https://custom-api.example.com/v1"

\* The configurations a caller may pass to the constructor.  The type allows
\* 'production' | 'development'; untyped callers can pass anything.
ApiKeys == {Undef, "", "nxt_key", "test-key"}
Environments == {Undef, "", "production", "development", "staging"}
ApiUrls == {Undef, "", CustomUrl}
\* A timeout is a number; 0 stands for both an absent timeout and 0, which
\* `config.timeout || 30000` treats alike.
Timeouts == {0, 5000, 60000}
StorageProviders == {Undef, "local", "custom"}

Configs ==
    [apiKey : ApiKeys, environment : Environments, apiUrl : ApiUrls,
     timeout : Timeouts, storageProvider : StorageProviders]

NoConfig == [apiKey |-> Undef, environment |-> Undef, apiUrl |-> Undef,
             timeout |-> 0, storageProvider |-> Undef]

\* A configuration without storageConfig and authConfig refers to no object.
NoObjects == <<>>

NoAxios == [created |-> FALSE, baseURL |-> Undef, timeout |-> 0,
            Authorization |-> Undef, commonAuthorization |-> Undef]

\* A plausible slip: the two origins swapped.
getDefaultApiUrlSwapped(environment) ==
    IF environment = "production" THEN DevelopmentUrl ELSE ProductionUrl

\* private getDefaultApiUrl(environment)
getDefaultApiUrl(environment) ==
    IF environment = "production" THEN ProductionUrl ELSE DevelopmentUrl

\* A plausible slip: the environment check dropped.
ConfigProblemNoEnvironment(cfg) ==
    IF Falsy(cfg.apiKey)
    THEN NeuralNexusError(
             "API key is required to initialize the Neural Nexus client",
             "INVALID_CONFIG", NoDetails)
    ELSE NoError

\* The constructor's validation: the error it throws, or NoError.
ConfigProblem(cfg) ==
    IF Falsy(cfg.apiKey)
    THEN NeuralNexusError(
             "API key is required to initialize the Neural Nexus client",
             "INVALID_CONFIG", NoDetails)
    ELSE IF Falsy(cfg.environment)
    THEN NeuralNexusError(
             "Environment (production or development) must be specified",
             "INVALID_CONFIG", NoDetails)
    ELSE NoError

DefaultTimeout == 30000

\* this.config = { ...config, apiUrl: ..., timeout: ..., storageProvider: ... }
DefaultedConfig(cfg) ==
    [cfg EXCEPT
        !.apiUrl = Or(cfg.apiUrl, getDefaultApiUrl(cfg.environment)),
        !.timeout = IF cfg.timeout = 0 THEN DefaultTimeout ELSE cfg.timeout,
        !.storageProvider = Or(cfg.storageProvider, "google")]

\* axios.create({ baseURL, timeout, headers: { Authorization: `Bearer ${apiKey}` } }).
\* The headers given to create() become the instance's top-level default
\* headers; defaults.headers.common holds no Authorization yet.
CreateAxios(cfg) ==
    [created |-> TRUE, baseURL |-> cfg.apiUrl, timeout |-> cfg.timeout,
     Authorization |-> Bearer(cfg.apiKey), commonAuthorization |-> Undef]

\* new NeuralNexus(cfg)
Construct(cfg) ==
    /\ phase = "none"
    /\ IF ConfigProblem(cfg) # NoError
       THEN /\ phase' = "threw"
            /\ thrown' = ConfigProblem(cfg)
            /\ lastOp' = [op |-> "construct", ok |-> FALSE, prev |-> Prev,
                          emissions |-> <<>>]
            /\ UNCHANGED <<config, axiosInstance>>
       ELSE /\ phase' = "ready"
            /\ config' = DefaultedConfig(cfg)
            /\ axiosInstance' = CreateAxios(DefaultedConfig(cfg))
            /\ lastOp' = [op |-> "construct", ok |-> TRUE, prev |-> Prev,
                          emissions |-> <<Emission(CONNECTED, NoPayload,
                                                   listeners[CONNECTED])>>]
            /\ UNCHANGED thrown
    /\ given' = cfg
    /\ UNCHANGED <<token, lastWrite, listeners, calls, returned, closure, heap, currentUser>>

\* getConfig(): { ...this.config }
GetConfig ==
    /\ phase = "ready"
    /\ returned' = config
    /\ lastOp' = [op |-> "getConfig", ok |-> TRUE, prev |-> Prev]
    /\ UNCHANGED <<phase, given, thrown, config, axiosInstance, token, lastWrite,
                   listeners, calls, closure, heap, currentUser>>

InitNone ==
    /\ phase = "none"
    /\ thrown = NoError
    /\ config = NoConfig
    /\ axiosInstance = NoAxios
    /\ token = Null
    /\ lastWrite = Null
    /\ listeners = NoListeners
    /\ calls = <<>>
    /\ lastOp = [op |-> "none", ok |-> TRUE]
    /\ returned = NoConfig
    /\ given = NoConfig
    /\ closure = NeverClosed
    /\ heap = NoObjects
    /\ currentUser = Null

NextConfig ==
    \/ \E cfg \in Configs : Construct(cfg)
    \/ GetConfig

SpecConfig == InitNone /\ [][NextConfig]_vars

\* C8: constructing a client with a falsy apiKey or a falsy environment throws
\* a NeuralNexusError with code INVALID_CONFIG, with no HTTP client created, no
\* event emitted and no request dispatched.
C8_InvalidConfigThrows ==
    (phase # "none" /\ (Falsy(given.apiKey) \/ Falsy(given.environment))) =>
        /\ phase = "threw"
        /\ IsNeuralNexusError(thrown)
        /\ thrown.code = "INVALID_CONFIG"
        /\ ~axiosInstance.created
        /\ lastOp.op = "construct" /\ lastOp.emissions = <<>>
        /\ calls = <<>>
        /\ config = NoConfig

C8_Witness ==
    /\ phase = "threw"
    /\ ~Falsy(given.apiKey)
    /\ Falsy(given.environment)
    /\ thrown.code = "INVALID_CONFIG"

\* C9: getConfig().apiUrl is the configured override when one is given;
\* otherwise it is decided by the environment alone: production and development
\* each map to their fixed origin, and no third origin is built in.
C9_ApiUrlSelection ==
    (phase = "ready" /\ lastOp.op = "getConfig") =>
        /\ ~Falsy(given.apiUrl) => returned.apiUrl = given.apiUrl
        /\ (Falsy(given.apiUrl) /\ given.environment = "production") =>
               returned.apiUrl = ProductionUrl
        /\ (Falsy(given.apiUrl) /\ given.environment = "development") =>
               returned.apiUrl = DevelopmentUrl
        /\ Falsy(given.apiUrl) => returned.apiUrl \in {ProductionUrl, DevelopmentUrl}
        /\ axiosInstance.baseURL = returned.apiUrl

C9_Witness ==
    /\ lastOp.op = "getConfig"
    /\ Falsy(given.apiUrl)
    /\ given.environment = "production"
    /\ returned.apiUrl = ProductionUrl

(***************************************************************************)
(* The client after `new NeuralNexus({ apiKey: 'test-key', environment:    *)
(* 'development' })`, the state every operation below starts from.         *)
(***************************************************************************)
TestConfig ==
    [apiKey |-> "test-key", environment |-> "development", apiUrl |-> Undef,
     timeout |-> 0, storageProvider |-> Undef]

InitReady ==
    /\ phase = "ready"
    /\ given = TestConfig
    /\ thrown = NoError
    /\ config = DefaultedConfig(TestConfig)
    /\ axiosInstance = CreateAxios(DefaultedConfig(TestConfig))
    /\ token = Null
    /\ lastWrite = Null
    /\ listeners = NoListeners
    /\ calls = <<>>
    /\ lastOp = [op |-> "construct", ok |-> TRUE,
                 prev |-> [op |-> "none", ok |-> TRUE],
                 emissions |-> <<Emission(CONNECTED, NoPayload, <<>>)>>]
    /\ returned = NoConfig
    /\ closure = NeverClosed
    /\ heap = NoObjects
    /\ currentUser = Null

(***************************************************************************)
(* on / off / emit / close                                                 *)
(***************************************************************************)
MaxRegistrations == 3

\* addListener: the listener is appended, with no check for a duplicate.
AddListener(regs, l) == Append(regs, l)

\* on(event, listener)
On(e, l) ==
    /\ phase = "ready"
    /\ Registrations(listeners) < MaxRegistrations
    /\ listeners' = [listeners EXCEPT ![e] = AddListener(@, l)]
    /\ closure' = LoggedOn(closure, e, l)
    /\ lastOp' = [op |-> "on", ok |-> TRUE, prev |-> Prev, event |-> e,
                  listener |-> l, before |-> listeners[e]]
    /\ UNCHANGED <<phase, given, thrown, config, axiosInstance, token, lastWrite,
                   calls, returned, heap, currentUser>>

\* off(event, listener)
Off(e, l) ==
    /\ phase = "ready"
    /\ listeners' = [listeners EXCEPT ![e] = RemoveLast(@, l)]
    /\ closure' = LoggedOff(closure, e, l)
    /\ lastOp' = [op |-> "off", ok |-> TRUE, prev |-> Prev, event |-> e,
                  listener |-> l, before |-> listeners[e]]
    /\ UNCHANGED <<phase, given, thrown, config, axiosInstance, token, lastWrite,
                   calls, returned, heap, currentUser>>

\* emit(event, payload)
Emit(e, p) ==
    /\ phase = "ready"
    /\ lastOp' = [op |-> "emit", prev |-> Prev,
                  ok |-> EmitException(e, p, listeners[e]) = NoError,
                  emissions |-> <<Emission(e, p, listeners[e])>>]
    /\ UNCHANGED <<phase, given, thrown, config, axiosInstance, token, lastWrite,
                   listeners, calls, returned, closure, heap, currentUser>>

\* A plausible slip: only the listeners of `disconnected` removed.
AfterCloseDisconnectedOnly(reg) ==
    IF HasRaiser(reg[DISCONNECTED]) THEN reg ELSE [reg EXCEPT ![DISCONNECTED] = <<>>]

\* A plausible slip: close() emits `disconnected` and removes nothing.
AfterCloseKept(reg) == reg

\* The registry close() leaves: this.emit(DISCONNECTED) runs first, and
\* this.removeAllListeners() only when that emission returned.
AfterClose(reg) ==
    IF HasRaiser(reg[DISCONNECTED]) THEN reg ELSE NoListeners

\* close(): refreshTimer is never set, so the clearInterval branch is dead.
Close ==
    /\ phase = "ready"
    /\ lastOp' = [op |-> "close", prev |-> Prev, before |-> listeners,
                  ok |-> ~HasRaiser(listeners[DISCONNECTED]),
                  emissions |-> <<Emission(DISCONNECTED, NoPayload,
                                           listeners[DISCONNECTED])>>]
    /\ listeners' = AfterClose(listeners)
    /\ closure' = LoggedClose(closure, listeners)
    /\ UNCHANGED <<phase, given, thrown, config, axiosInstance, token, lastWrite,
                   calls, returned, heap, currentUser>>

NextBus ==
    \/ \E e \in Events, l \in ListenerIds : On(e, l)
    \/ \E e \in Events, l \in ListenerIds : Off(e, l)
    \/ \E e \in Events, p \in Payloads : Emit(e, p)
    \/ Close

SpecBus == InitReady /\ [][NextBus]_vars

TheEmission == lastOp.emissions[1]

IsPrefix(a, b) == Len(a) <= Len(b) /\ \A i \in 1..Len(a) : a[i] = b[i]

\* C4 as stated: emit(E, payload) invokes every listener registered for E, once
\* per registration and in registration order, and no other listener.
C4_Original ==
    lastOp.op = "emit" =>
        /\ TheEmission.invoked = listeners[TheEmission.event]
        /\ TheEmission.registered = listeners[TheEmission.event]

\* C4 (amended): emit(E, payload) invokes the listeners registered for E and no
\* others, once per registration and in registration order, up to and including
\* the first one that raises: all of them when none raises, a listener
\* registered twice at both of its positions; on() appends a registration
\* even when the listener is registered already.
C4_EmitInRegistrationOrder ==
    /\ lastOp.op = "emit" =>
        LET regs == listeners[TheEmission.event]
            inv == TheEmission.invoked
        IN /\ IsPrefix(inv, regs)
           /\ \A i \in 1..(Len(inv) - 1) : ~Raises(inv[i])
           /\ Len(inv) < Len(regs) => (Len(inv) > 0 /\ Raises(inv[Len(inv)]))
           /\ (\A i \in 1..Len(regs) : ~Raises(regs[i])) => inv = regs
    /\ lastOp.op = "on" =>
        listeners[lastOp.event] = Append(lastOp.before, lastOp.listener)

\* A listener registered twice, between two others, is invoked at both places.
C4_Witness ==
    /\ lastOp.op = "emit"
    /\ TheEmission.event = CONNECTED
    /\ TheEmission.invoked = <<"A", "B", "A">>
    /\ listeners[DISCONNECTED] = <<>>

\* C5 as stated: a listener that raises does not keep the listeners registered
\* after it from being invoked in the same emission, and emit reports nothing
\* back.
C5_Original ==
    (lastOp.op = "emit" /\ HasRaiser(TheEmission.registered)) =>
        /\ TheEmission.invoked = TheEmission.registered
        /\ TheEmission.exception = NoError

\* C5 (amended): a listener that raises during emit(E) ends the emission: the
\* listeners registered after it for E are not invoked, and its exception is
\* thrown to the caller of emit.
C5_RaisingListenerEndsEmission ==
    (lastOp.op = "emit" /\ HasRaiser(TheEmission.registered)) =>
        LET regs == TheEmission.registered
            inv == TheEmission.invoked
        IN /\ Len(inv) >= 1
           /\ IsPrefix(inv, regs)
           /\ Raises(inv[Len(inv)])
           /\ \A i \in 1..(Len(inv) - 1) : ~Raises(inv[i])
           /\ TheEmission.exception = ListenerException(inv[Len(inv)])
           /\ ~lastOp.ok

C5_Witness ==
    /\ lastOp.op = "emit"
    /\ TheEmission.registered = <<"A", "R", "B">>
    /\ TheEmission.invoked = <<"A", "R">>
    /\ TheEmission.exception = ListenerException("R")

C18_Original ==
    [][(/\ lastOp.op = "on" /\ lastOp'.op = "off"
        /\ lastOp'.event = lastOp.event /\ lastOp'.listener = lastOp.listener)
       => \A k \in 1..Len(listeners'[lastOp'.event]) :
              listeners'[lastOp'.event][k] # lastOp'.listener]_vars

\* C18 (amended): off(E, L) removes one registration of L for E, the most
\* recent one, and nothing when L is not registered for E; every other
\* registration for E and every registration for another event stays, in its
\* order.  After on(E, L) followed by off(E, L) the listeners of E are those
\* registered before that on(E, L).
C18_OffRemovesLatestRegistration ==
    [][lastOp'.op = "off" =>
         LET e == lastOp'.event
             l == lastOp'.listener
             old == listeners[e]
             at == {k \in 1..Len(old) : old[k] = l}
         IN /\ \A x \in Events \ {e} : listeners'[x] = listeners[x]
            /\ at = {} => listeners'[e] = old
            /\ at # {} =>
                   \E k \in at :
                       /\ \A j \in at : j <= k
                       /\ Len(listeners'[e]) = Len(old) - 1
                       /\ \A j \in 1..(k - 1) : listeners'[e][j] = old[j]
                       /\ \A j \in k..(Len(old) - 1) : listeners'[e][j] = old[j + 1]
            /\ (lastOp.op = "on" /\ lastOp.event = e /\ lastOp.listener = l) =>
                   listeners'[e] = lastOp.before]_vars

\* off(E, A) with A registered twice around B: the later A is removed.
C18_Witness ==
    /\ lastOp.op = "off"
    /\ lastOp.listener = "A"
    /\ lastOp.before = <<"A", "B", "A">>
    /\ listeners[lastOp.event] = <<"A", "B">>

(***************************************************************************)
(* Listeners around close(), with the log of close() kept                  *)
(***************************************************************************)
InitLogged ==
    /\ phase = "ready"
    /\ given = TestConfig
    /\ thrown = NoError
    /\ config = DefaultedConfig(TestConfig)
    /\ axiosInstance = CreateAxios(DefaultedConfig(TestConfig))
    /\ token = Null
    /\ lastWrite = Null
    /\ listeners = NoListeners
    /\ calls = <<>>
    /\ lastOp = [op |-> "construct", ok |-> TRUE,
                 prev |-> [op |-> "none", ok |-> TRUE],
                 emissions |-> <<Emission(CONNECTED, NoPayload, <<>>)>>]
    /\ returned = NoConfig
    /\ closure = [NeverClosed EXCEPT !.log = TRUE]
    /\ heap = NoObjects
    /\ currentUser = Null

NextClosure ==
    \/ \E e \in {DISCONNECTED, ERROR}, l \in ListenerIds : On(e, l)
    \/ \E l \in ListenerIds : Off(ERROR, l)
    \/ \E e \in {DISCONNECTED, ERROR} : Emit(e, NoPayload)
    \/ Close

SpecClosure == InitLogged /\ [][NextClosure]_vars

Tokens == {"test-token", "other-token"}

\* this.axiosInstance.defaults.headers.common['Authorization'] = value
WithCommonAuthorization(ax, value) == [ax EXCEPT !.commonAuthorization = value]

\* setToken(token)
SetToken(t) ==
    /\ phase = "ready"
    /\ token' = t
    /\ axiosInstance' = WithCommonAuthorization(axiosInstance, Bearer(t))
    /\ lastWrite' = t
    /\ lastOp' = [op |-> "setToken", ok |-> TRUE, prev |-> Prev]
    /\ UNCHANGED <<phase, given, thrown, config, listeners, calls, returned, closure, heap, currentUser>>

\* clearToken()
ClearToken ==
    /\ phase = "ready"
    /\ token' = Null
    /\ axiosInstance' = WithCommonAuthorization(axiosInstance, Bearer(config.apiKey))
    /\ lastWrite' = Null
    /\ lastOp' = [op |-> "clearToken", ok |-> TRUE, prev |-> Prev]
    /\ UNCHANGED <<phase, given, thrown, config, listeners, calls, returned, closure, heap, currentUser>>

\* The Authorization header axios (^1.5.0) puts on a request of this instance.
\* Axios.request flattens the default headers as
\*     AxiosHeaders.concat(merge(headers.common, headers[method]), headers)
\* where later sources overwrite earlier ones: a header given to
\* axios.create({ headers }) sits at the top level of defaults.headers and wins
\* over the same header in defaults.headers.common.  No request of the client
\* passes an Authorization of its own.
RequestAuthorization(ax) ==
    IF ax.Authorization # Undef THEN ax.Authorization ELSE ax.commonAuthorization

(***************************************************************************)
(* The response interceptor (the error normalizer)                         *)
(***************************************************************************)
\* What the transport can fail with: an error with or without a message,
\* with or without a response, whose body may carry a nested error object
\* (data.error.*), flat fields (data.*), or nothing.  An absent field is Undef.
FailureMessages == {Undef, "", "Network Error"}

\* A failure without a response (no connection, a timeout) carries none of the
\* response fields.
NetworkFailures ==
    [message : FailureMessages,
     status : {Undef}, requestId : {Undef},
     errMessage : {Undef}, errCode : {Undef}, errDetails : {Undef},
     dataMessage : {Undef}, dataCode : {Undef}, dataDetails : {Undef}]

ResponseFailures ==
    [message : FailureMessages,
     status : {"500"},
     requestId : {Undef, "req-1"},
     errMessage : {Undef, "", "deep message"},
     errCode : {Undef, "", "DEEP_CODE"},
     errDetails : {Undef, "deep details"},
     dataMessage : {Undef, "", "flat message"},
     dataCode : {Undef, "", "FLAT_CODE"},
     dataDetails : {Undef, "flat details"}]

TransportFailures == NetworkFailures \cup ResponseFailures


\* a ?? b
Nullish(a, b) == IF a \in {Undef, Null} THEN b ELSE a

\* A plausible slip: ?? written for ||, which lets an empty string through.
NormalizedNullish(f) ==
    NeuralNexusError(
        Nullish(Nullish(Nullish(f.errMessage, f.dataMessage), f.message),
                "Unknown error occurred"),
        Nullish(Nullish(f.errCode, f.dataCode), "API_ERROR"),
        IF ~Falsy(f.errDetails) THEN [kind |-> "body", value |-> f.errDetails]
        ELSE IF ~Falsy(f.dataDetails) THEN [kind |-> "body", value |-> f.dataDetails]
        ELSE [kind |-> "synthesized", status |-> f.status, request_id |-> f.requestId])

\* A plausible slip: the flat fields of the body read before the nested error.
NormalizedFlatFirst(f) ==
    NeuralNexusError(
        Or(Or(Or(f.dataMessage, f.errMessage), f.message), "Unknown error occurred"),
        Or(Or(f.dataCode, f.errCode), "API_ERROR"),
        IF ~Falsy(f.dataDetails) THEN [kind |-> "body", value |-> f.dataDetails]
        ELSE IF ~Falsy(f.errDetails) THEN [kind |-> "body", value |-> f.errDetails]
        ELSE [kind |-> "synthesized", status |-> f.status, request_id |-> f.requestId])

\* The NeuralNexusError the interceptor builds from a failure.
Normalized(f) ==
    NeuralNexusError(
        Or(Or(Or(f.errMessage, f.dataMessage), f.message), "Unknown error occurred"),
        Or(Or(f.errCode, f.dataCode), "API_ERROR"),
        IF ~Falsy(f.errDetails) THEN [kind |-> "body", value |-> f.errDetails]
        ELSE IF ~Falsy(f.dataDetails) THEN [kind |-> "body", value |-> f.dataDetails]
        ELSE [kind |-> "synthesized", status |-> f.status, request_id |-> f.requestId])

\* A plausible slip: the error event emitted twice.
InterceptorEmissionsTwice(f, regs) ==
    <<Emission(ERROR, Normalized(f), regs), Emission(ERROR, Normalized(f), regs)>>

\* this.emit(NeuralNexusEvent.ERROR, neuralNexusError): one emission.
InterceptorEmissions(f, regs) == <<Emission(ERROR, Normalized(f), regs)>>

\* What the interceptor rejects with.  emit runs inside the rejection
\* handler with no try/catch: when it throws, the handler's promise rejects
\* with what it threw (with no `error` listener that is the error itself)
\* and `return Promise.reject(neuralNexusError)` is not reached.
InterceptorRejection(f, regs) ==
    LET thrownByEmit == InterceptorEmissions(f, regs)[1].exception
    IN IF thrownByEmit # NoError THEN thrownByEmit ELSE Normalized(f)

(***************************************************************************)
(* get / post / put / delete / upload / stream                             *)
(***************************************************************************)
Methods == {"get", "post", "put", "delete", "upload", "stream"}
Endpoint == "/test"

FailedMessage(method) ==
    CASE method = "get" -> "Failed to fetch data from " \o Endpoint
      [] method = "post" -> "Failed to post data to " \o Endpoint
      [] method = "put" -> "Failed to update data at " \o Endpoint
      [] method = "delete" -> "Failed to delete data at " \o Endpoint
      [] method = "upload" -> "Failed to upload data to " \o Endpoint
      [] method = "stream" -> "Failed to stream data from " \o Endpoint

\* A plausible slip: the catch block rethrows whatever it caught.
CaughtRethrown(method, e) == e

\* catch (error) { if (error instanceof NeuralNexusError) throw error;
\*                 throw new NeuralNexusError(..., 'API_REQUEST_FAILED', error) }
Caught(method, e) ==
    IF IsNeuralNexusError(e) THEN e
    ELSE NeuralNexusError(FailedMessage(method), "API_REQUEST_FAILED",
                          [kind |-> "raw", error |-> e])

MaxCalls == 2

Remove(seq, i) == SubSeq(seq, 1, i - 1) \o SubSeq(seq, i + 1, Len(seq))

\* The call of a request method up to its await: one exchange is dispatched
\* with the headers of that moment.
Dispatch(m) ==
    /\ phase = "ready"
    /\ Len(calls) < MaxCalls
    /\ calls' = Append(calls, [method |-> m, stage |-> "awaiting", exchanges |-> 1,
                               Authorization |-> RequestAuthorization(axiosInstance)])
    /\ lastOp' = [op |-> "dispatch", ok |-> TRUE, prev |-> Prev, method |-> m,
                  Authorization |-> RequestAuthorization(axiosInstance)]
    /\ UNCHANGED <<phase, given, thrown, config, axiosInstance, token, lastWrite,
                   listeners, returned, closure, heap, currentUser>>

\* A plausible slip: a failed exchange is sent once more before the failure is
\* surfaced.
RespondFailureRetried(i, f) ==
    /\ i \in 1..Len(calls)
    /\ calls[i].stage = "awaiting"
    /\ calls' = IF calls[i].exchanges = 1
                THEN [calls EXCEPT ![i].exchanges = 2]
                ELSE Remove(calls, i)
    /\ lastOp' = [op |-> IF calls[i].exchanges = 1 THEN "retry" ELSE "settle",
                  ok |-> FALSE, prev |-> Prev,
                  method |-> calls[i].method, failure |-> f,
                  exchanges |-> calls[i].exchanges,
                  emissions |-> InterceptorEmissions(f, listeners[ERROR]),
                  rejection |-> InterceptorRejection(f, listeners[ERROR]),
                  raised |-> Caught(calls[i].method,
                                    InterceptorRejection(f, listeners[ERROR]))]
    /\ UNCHANGED <<phase, given, thrown, config, axiosInstance, token, lastWrite,
                   listeners, returned, closure, heap, currentUser>>

\* The exchange of call i fails with f: the interceptor runs, then the catch
\* block of the method, and the call rejects.
RespondFailure(i, f) ==
    /\ i \in 1..Len(calls)
    /\ calls[i].stage = "awaiting"
    /\ calls' = Remove(calls, i)
    /\ lastOp' = [op |-> "settle", ok |-> FALSE, prev |-> Prev,
                  method |-> calls[i].method, failure |-> f,
                  exchanges |-> calls[i].exchanges,
                  emissions |-> InterceptorEmissions(f, listeners[ERROR]),
                  rejection |-> InterceptorRejection(f, listeners[ERROR]),
                  raised |-> Caught(calls[i].method,
                                    InterceptorRejection(f, listeners[ERROR]))]
    /\ UNCHANGED <<phase, given, thrown, config, axiosInstance, token, lastWrite,
                   listeners, returned, closure, heap, currentUser>>

\* The exchange of call i succeeds: a get/post/put/delete/upload call returns
\* response.data.
RespondSuccess(i) ==
    /\ i \in 1..Len(calls)
    /\ calls[i].stage = "awaiting"
    /\ calls[i].method # "stream"
    /\ calls' = Remove(calls, i)
    /\ lastOp' = [op |-> "settle", ok |-> TRUE, prev |-> Prev,
                  method |-> calls[i].method, emissions |-> <<>>,
                  exchanges |-> calls[i].exchanges,
                  raised |-> NoError]
    /\ UNCHANGED <<phase, given, thrown, config, axiosInstance, token, lastWrite,
                   listeners, returned, closure, heap, currentUser>>

(***************************************************************************)
(* stream(): the decoder of the response body                              *)
(***************************************************************************)
\* The lines a server writes: three data frames (a number, a longer number,
\* an object), a frame that is not JSON, the sentinel, and a comment line.
Lines ==
    {"data: 1", "data: 12", "data: {\"a\":1}", "data: {not json",
     "data: [DONE]", ": ping"}

\* The chunks the transport delivers: one or two whole lines.
Chunks ==
    {l \o "\n" : l \in Lines} \cup {l \o "\n" \o m \o "\n" : l \in Lines, m \in Lines}

HasNewline(s) == \E k \in 1..Len(s) : SubSeq(s, k, k) = "\n"

FirstNewline(s) ==
    CHOOSE k \in 1..Len(s) :
        SubSeq(s, k, k) = "\n" /\ \A j \in 1..(k - 1) : SubSeq(s, j, j) # "\n"

\* chunk.toString().split('\n')
RECURSIVE Split(_)
Split(s) ==
    IF HasNewline(s)
    THEN <<SubSeq(s, 1, FirstNewline(s) - 1)>>
             \o Split(SubSeq(s, FirstNewline(s) + 1, Len(s)))
    ELSE <<s>>

\* line.trim() !== '' (the only whitespace of the model's texts is the space)
NotBlank(line) == \E k \in 1..Len(line) : SubSeq(line, k, k) # " "

\* .filter((line) => line.trim() !== '')
LinesOf(chunk) == SelectSeq(Split(chunk), NotBlank)

\* line.startsWith('data: ')
StartsWithData(line) == Len(line) >= 6 /\ SubSeq(line, 1, 6) = "data: "

\* line.substring(6)
JsonStr(line) == SubSeq(line, 7, Len(line))

\* JSON.parse(jsonStr) on the texts that are JSON among the model's lines and
\* their fragments; it throws on every other text.
IsJson(text) == text \in {"1", "2", "12", "{\"a\":1}"}
JsonParse(text) ==
    CASE text = "1" -> [type |-> "number", value |-> 1]
      [] text = "2" -> [type |-> "number", value |-> 2]
      [] text = "12" -> [type |-> "number", value |-> 12]
      [] text = "{\"a\":1}" -> [type |-> "object", a |-> 1]

IsSentinel(line) == StartsWithData(line) /\ JsonStr(line) = "[DONE]"

\* The index of the first sentinel line, or 0.
SentinelAt(lines) ==
    IF \E k \in 1..Len(lines) : IsSentinel(lines[k])
    THEN CHOOSE k \in 1..Len(lines) :
             IsSentinel(lines[k]) /\ \A j \in 1..(k - 1) : ~IsSentinel(lines[j])
    ELSE 0

\* The lines the for loop of one 'data' event visits: `return` after the
\* sentinel leaves the loop, and the handler, for this chunk.
Visited(lines) ==
    IF SentinelAt(lines) = 0 THEN lines ELSE SubSeq(lines, 1, SentinelAt(lines) - 1)

IsFrame(line) == StartsWithData(line) /\ IsJson(JsonStr(line))

\* A plausible slip: the frames of a chunk collected on a stack and delivered
\* last first.
RECURSIVE DecodedReversed(_)
DecodedReversed(lines) ==
    IF lines = <<>> THEN <<>>
    ELSE IF IsFrame(Head(lines))
    THEN DecodedReversed(Tail(lines)) \o <<JsonParse(JsonStr(Head(lines)))>>
    ELSE DecodedReversed(Tail(lines))

\* The onChunk invocations of one 'data' event, in order: the data lines
\* visited whose text parses; a line that does not parse is skipped.
RECURSIVE Decoded(_)
Decoded(lines) ==
    IF lines = <<>> THEN <<>>
    ELSE IF IsFrame(Head(lines))
    THEN <<JsonParse(JsonStr(Head(lines)))>> \o Decoded(Tail(lines))
    ELSE Decoded(Tail(lines))

ChunkInvocations(chunk) == Decoded(Visited(LinesOf(chunk)))

\* A data line whose text JSON.parse rejects: the inner catch ignores it.
IsMalformed(line) == StartsWithData(line) /\ ~IsSentinel(line) /\ ~IsJson(JsonStr(line))

\* The number of lines of one 'data' event the inner catch discarded.
ChunkDiscarded(chunk) == Len(SelectSeq(Visited(LinesOf(chunk)), IsMalformed))

ChunkHasSentinel(chunk) == SentinelAt(LinesOf(chunk)) # 0

\* The transport's side of a stream: the text of the line it has started and
\* not yet ended with a newline, after one more chunk.  The handler keeps
\* nothing of it.
Unterminated(partial, chunk) ==
    IF HasNewline(chunk) THEN Split(chunk)[Len(Split(chunk))] ELSE partial \o chunk

\* A plausible slip: a completion the last resolve() or reject() decides.
SettleLast(call, outcome, reason) ==
    [call EXCEPT !.promise = outcome, !.reason = reason]

\* resolve() and reject() settle a pending promise and do nothing to a
\* settled one.
Settle(call, outcome, reason) ==
    IF call.promise = "pending"
    THEN [call EXCEPT !.promise = outcome, !.reason = reason]
    ELSE call

MaxChunks == 2

\* The onChunk callbacks of the model: one that keeps what it is given, and
\* one that throws on the value 12 and keeps every other value.
Collects == "collects"
Throws == "throws"
Consumers == {Collects, Throws}

OnChunkThrows(onChunk, v) == onChunk = Throws /\ v.type = "number" /\ v.value = 12

\* The number of onChunk invocations of a sequence that throw.
Thrown(onChunk, invocations) ==
    Cardinality({k \in 1..Len(invocations) : OnChunkThrows(onChunk, invocations[k])})

\* The POST of stream call i succeeds: the promise is created and the data,
\* end and error handlers are attached to response.data; onChunk is the
\* callback the caller passed.
StreamOpenWith(i, onChunk) ==
    /\ i \in 1..Len(calls)
    /\ calls[i].method = "stream"
    /\ calls[i].stage = "awaiting"
    /\ calls' = [calls EXCEPT ![i] =
                    [method |-> "stream", stage |-> "streaming",
                     exchanges |-> calls[i].exchanges,
                     Authorization |-> calls[i].Authorization,
                     promise |-> "pending", reason |-> NoError,
                     source |-> "flowing", chunks |-> 0,
                     sentinelSeen |-> FALSE, consumed |-> <<>>,
                     discarded |-> 0, partial |-> "",
                     onChunk |-> onChunk, swallowed |-> 0, late |-> 0]]
    /\ lastOp' = [op |-> "open", ok |-> TRUE, prev |-> Prev, call |-> i]
    /\ UNCHANGED <<phase, given, thrown, config, axiosInstance, token, lastWrite,
                   listeners, returned, closure, heap, currentUser>>

StreamOpen(i) == StreamOpenWith(i, Collects)

\* A plausible slip: no inner try/catch, so a line that does not parse leaves
\* the loop through the outer catch, which rejects with STREAM_PARSE_ERROR.
AfterDataAbortOnMalformed(call, chunk) ==
    LET lines == Visited(LinesOf(chunk))
        bad == CHOOSE k \in 1..Len(lines) :
                   IsMalformed(lines[k]) /\ \A j \in 1..(k - 1) : ~IsMalformed(lines[j])
        seen == [call EXCEPT !.chunks = @ + 1,
                             !.consumed = @ \o Decoded(SubSeq(lines, 1, bad - 1))]
    IN IF ChunkDiscarded(chunk) = 0
       THEN LET ok == [call EXCEPT !.chunks = @ + 1,
                                   !.consumed = @ \o ChunkInvocations(chunk),
                                   !.sentinelSeen = @ \/ ChunkHasSentinel(chunk)]
            IN IF ChunkHasSentinel(chunk) THEN Settle(ok, "resolved", NoError) ELSE ok
       ELSE Settle(seen, "rejected",
                   NeuralNexusError("Error parsing stream data", "STREAM_PARSE_ERROR",
                                    [kind |-> "raw", error |-> [type |-> "SyntaxError"]]))

\* A plausible slip: onChunk called after the inner try/catch instead of
\* inside it, so that what it throws leaves the loop through the outer catch,
\* which rejects with STREAM_PARSE_ERROR.
AfterDataConsumerEscapes(call, chunk) ==
    LET invocations == ChunkInvocations(chunk)
        bad == CHOOSE k \in 1..Len(invocations) :
                   /\ OnChunkThrows(call.onChunk, invocations[k])
                   /\ \A j \in 1..(k - 1) : ~OnChunkThrows(call.onChunk, invocations[j])
        seen == [call EXCEPT
                    !.chunks = @ + 1,
                    !.consumed = @ \o invocations,
                    !.discarded = @ + ChunkDiscarded(chunk),
                    !.partial = Unterminated(@, chunk),
                    !.sentinelSeen = @ \/ ChunkHasSentinel(chunk)]
    IN IF Thrown(call.onChunk, invocations) = 0
       THEN IF ChunkHasSentinel(chunk) THEN Settle(seen, "resolved", NoError) ELSE seen
       ELSE Settle([call EXCEPT !.chunks = @ + 1,
                                !.consumed = @ \o SubSeq(invocations, 1, bad)],
                   "rejected",
                   NeuralNexusError("Error parsing stream data", "STREAM_PARSE_ERROR",
                                    [kind |-> "raw", error |-> [type |-> "Error"]]))

\* response.data.on('data', ...) for one chunk: what JSON.parse or onChunk
\* throws is caught by the inner catch, which does nothing with it.
AfterData(call, chunk) ==
    LET seen == [call EXCEPT
                    !.chunks = @ + 1,
                    !.consumed = @ \o ChunkInvocations(chunk),
                    !.discarded = @ + ChunkDiscarded(chunk),
                    !.swallowed = @ + Thrown(call.onChunk, ChunkInvocations(chunk)),
                    !.partial = Unterminated(@, chunk),
                    !.sentinelSeen = @ \/ ChunkHasSentinel(chunk)]
    IN IF ChunkHasSentinel(chunk) THEN Settle(seen, "resolved", NoError) ELSE seen

\* A plausible slip: one decoder shared by the streams of the client, so that
\* the frames of a chunk reach the consumer of every open stream.
StreamDataShared(i, chunk) ==
    /\ i \in 1..Len(calls)
    /\ calls[i].stage = "streaming"
    /\ calls[i].source = "flowing"
    /\ calls[i].chunks < MaxChunks
    /\ calls' = [j \in 1..Len(calls) |->
                    IF j = i THEN AfterData(calls[i], chunk)
                    ELSE IF calls[j].stage = "streaming"
                    THEN [calls[j] EXCEPT !.consumed = @ \o ChunkInvocations(chunk)]
                    ELSE calls[j]]
    /\ lastOp' = [op |-> "data", ok |-> TRUE, prev |-> Prev, call |-> i,
                  chunk |-> chunk, before |-> calls[i],
                  invocations |-> SubSeq(AfterData(calls[i], chunk).consumed,
                                         Len(calls[i].consumed) + 1,
                                         Len(AfterData(calls[i], chunk).consumed))]
    /\ UNCHANGED <<phase, given, thrown, config, axiosInstance, token, lastWrite,
                   listeners, returned, closure, heap, currentUser>>

\* The transport delivers a chunk of stream i.
StreamData(i, chunk) ==
    /\ i \in 1..Len(calls)
    /\ calls[i].stage = "streaming"
    /\ calls[i].source = "flowing"
    /\ calls[i].chunks < MaxChunks
    /\ calls' = [calls EXCEPT ![i] = AfterData(calls[i], chunk)]
    /\ lastOp' = [op |-> "data", ok |-> TRUE, prev |-> Prev, call |-> i,
                  chunk |-> chunk, before |-> calls[i],
                  invocations |-> SubSeq(AfterData(calls[i], chunk).consumed,
                                         Len(calls[i].consumed) + 1,
                                         Len(AfterData(calls[i], chunk).consumed))]
    /\ UNCHANGED <<phase, given, thrown, config, axiosInstance, token, lastWrite,
                   listeners, returned, closure, heap, currentUser>>

\* A plausible slip: no 'end' handler, so the end of the body settles nothing.
StreamEndSilent(i) ==
    /\ i \in 1..Len(calls)
    /\ calls[i].stage = "streaming"
    /\ calls[i].source = "flowing"
    /\ calls' = [calls EXCEPT ![i] = [calls[i] EXCEPT !.source = "ended"]]
    /\ lastOp' = [op |-> "end", ok |-> TRUE, prev |-> Prev, call |-> i,
                  before |-> calls[i], emissions |-> <<>>]
    /\ UNCHANGED <<phase, given, thrown, config, axiosInstance, token, lastWrite,
                   listeners, returned, closure, heap, currentUser>>

\* response.data.on('end', ...)
StreamEnd(i) ==
    /\ i \in 1..Len(calls)
    /\ calls[i].stage = "streaming"
    /\ calls[i].source = "flowing"
    /\ calls' = [calls EXCEPT ![i] =
                    Settle([calls[i] EXCEPT !.source = "ended"], "resolved", NoError)]
    /\ lastOp' = [op |-> "end", ok |-> TRUE, prev |-> Prev, call |-> i,
                  before |-> calls[i], emissions |-> <<>>]
    /\ UNCHANGED <<phase, given, thrown, config, axiosInstance, token, lastWrite,
                   listeners, returned, closure, heap, currentUser>>

StreamFault == [type |-> "Error", message |-> "socket hang up"]

\* A plausible slip: the error handler passes the raw error on, reject(err).
StreamErrorRaw(i) ==
    /\ i \in 1..Len(calls)
    /\ calls[i].stage = "streaming"
    /\ calls[i].source = "flowing"
    /\ calls' = [calls EXCEPT ![i] =
                    Settle([calls[i] EXCEPT !.source = "errored"], "rejected",
                           StreamFault)]
    /\ lastOp' = [op |-> "streamError", ok |-> FALSE, prev |-> Prev, call |-> i,
                  before |-> calls[i], emissions |-> <<>>]
    /\ UNCHANGED <<phase, given, thrown, config, axiosInstance, token, lastWrite,
                   listeners, returned, closure, heap, currentUser>>

\* response.data.on('error', ...): no event is emitted on the client.
StreamError(i) ==
    /\ i \in 1..Len(calls)
    /\ calls[i].stage = "streaming"
    /\ calls[i].source = "flowing"
    /\ calls' = [calls EXCEPT ![i] =
                    Settle([calls[i] EXCEPT !.source = "errored"], "rejected",
                           NeuralNexusError("Stream error", "STREAM_ERROR",
                                            [kind |-> "raw", error |-> StreamFault]))]
    /\ lastOp' = [op |-> "streamError", ok |-> FALSE, prev |-> Prev, call |-> i,
                  before |-> calls[i], emissions |-> <<>>]
    /\ UNCHANGED <<phase, given, thrown, config, axiosInstance, token, lastWrite,
                   listeners, returned, closure, heap, currentUser>>

\* The handlers stay attached to response.data for as long as it lives, so
\* an event the source emits after its 'end' or 'error' still runs them.
MaxLate == 2

LateData(i, chunk) ==
    /\ i \in 1..Len(calls)
    /\ calls[i].stage = "streaming"
    /\ calls[i].source # "flowing"
    /\ calls[i].late < MaxLate
    /\ calls' = [calls EXCEPT ![i] =
                    AfterData([calls[i] EXCEPT !.late = @ + 1], chunk)]
    /\ lastOp' = [op |-> "data", ok |-> TRUE, prev |-> Prev, call |-> i,
                  chunk |-> chunk, before |-> calls[i],
                  invocations |-> ChunkInvocations(chunk)]
    /\ UNCHANGED <<phase, given, thrown, config, axiosInstance, token, lastWrite,
                   listeners, returned, closure, heap, currentUser>>

LateEnd(i) ==
    /\ i \in 1..Len(calls)
    /\ calls[i].stage = "streaming"
    /\ calls[i].source # "flowing"
    /\ calls[i].late < MaxLate
    /\ calls' = [calls EXCEPT ![i] =
                    Settle([calls[i] EXCEPT !.late = @ + 1], "resolved", NoError)]
    /\ lastOp' = [op |-> "end", ok |-> TRUE, prev |-> Prev, call |-> i,
                  before |-> calls[i], emissions |-> <<>>]
    /\ UNCHANGED <<phase, given, thrown, config, axiosInstance, token, lastWrite,
                   listeners, returned, closure, heap, currentUser>>

LateError(i) ==
    /\ i \in 1..Len(calls)
    /\ calls[i].stage = "streaming"
    /\ calls[i].source # "flowing"
    /\ calls[i].late < MaxLate
    /\ calls' = [calls EXCEPT ![i] =
                    Settle([calls[i] EXCEPT !.late = @ + 1], "rejected",
                           NeuralNexusError("Stream error", "STREAM_ERROR",
                                            [kind |-> "raw", error |-> StreamFault]))]
    /\ lastOp' = [op |-> "streamError", ok |-> FALSE, prev |-> Prev, call |-> i,
                  before |-> calls[i], emissions |-> <<>>]
    /\ UNCHANGED <<phase, given, thrown, config, axiosInstance, token, lastWrite,
                   listeners, returned, closure, heap, currentUser>>

\* The caller drops a stream whose source has ended or failed.
Forget(i) ==
    /\ i \in 1..Len(calls)
    /\ calls[i].stage = "streaming"
    /\ calls[i].source # "flowing"
    /\ calls' = Remove(calls, i)
    /\ lastOp' = [op |-> "forget", ok |-> TRUE, prev |-> Prev]
    /\ UNCHANGED <<phase, given, thrown, config, axiosInstance, token, lastWrite,
                   listeners, returned, closure, heap, currentUser>>

NextStream ==
    \/ calls = <<>> /\ Dispatch("stream")
    \/ StreamOpen(1)
    \/ \E f \in NetworkFailures : RespondFailure(1, f)
    \/ \E c \in Chunks : StreamData(1, c)
    \/ StreamEnd(1)
    \/ StreamError(1)
    \/ Forget(1)

SpecStream == InitReady /\ [][NextStream]_vars

\* C3: once a `data: [DONE]` line has been seen the promise is resolved and
\* no later line invokes the consumer, in the same chunk or in a later one.
C3_NothingAfterSentinel ==
    lastOp.op = "data" =>
        /\ calls[lastOp.call].sentinelSeen => calls[lastOp.call].promise = "resolved"
        /\ lastOp.before.sentinelSeen => lastOp.invocations = <<>>
        /\ ChunkHasSentinel(lastOp.chunk) =>
               Len(lastOp.invocations) <= SentinelAt(LinesOf(lastOp.chunk)) - 1

(***************************************************************************)
(* A line split across two chunks                                          *)
(***************************************************************************)
\* The first part of a line cut inside it, and the rest with its newline.
Cuts == {c \in [line : Lines, at : 1..15] : c.at < Len(c.line)}

Heads == {SubSeq(c.line, 1, c.at) : c \in Cuts}

Completes(partial, chunk) ==
    \E l \in Lines : partial \o chunk = l \o "\n"

Tails == {SubSeq(c.line, c.at + 1, Len(c.line)) \o "\n" : c \in Cuts}

NextSplit ==
    \/ calls = <<>> /\ Dispatch("stream")
    \/ StreamOpen(1)
    \/ \E c \in {l \o "\n" : l \in Lines} :
           /\ calls # <<>> /\ calls[1].stage = "streaming" /\ calls[1].partial = ""
           /\ StreamData(1, c)
    \/ \E c \in Heads :
           /\ calls # <<>> /\ calls[1].stage = "streaming" /\ calls[1].partial = ""
           /\ StreamData(1, c)
    \/ \E c \in Tails :
           /\ calls # <<>> /\ calls[1].stage = "streaming" /\ calls[1].partial # ""
           /\ Completes(calls[1].partial, c)
           /\ StreamData(1, c)
    \/ StreamEnd(1)
    \/ StreamError(1)
    \/ Forget(1)

SpecSplit == InitReady /\ [][NextSplit]_vars

\* C25: when a line is split across two chunks its frame is lost: neither the
\* chunk that ends inside the line nor the chunk that completes it invokes the
\* consumer, and the promise is not rejected.
C25_SplitFrameLost ==
    (lastOp.op = "data" /\ (lastOp.before.partial # "" \/ ~HasNewline(lastOp.chunk))) =>
        /\ lastOp.invocations = <<>>
        /\ calls[lastOp.call].consumed = lastOp.before.consumed
        /\ calls[lastOp.call].promise # "rejected"

\* What the code gives: the chunk that completes a split line delivers
\* nothing and no part of a split line rejects the promise, but the chunk
\* that ends inside the line is decoded as if the line were whole.
C25_SplitNeverAborts ==
    (lastOp.op = "data" /\ (lastOp.before.partial # "" \/ ~HasNewline(lastOp.chunk))) =>
        /\ lastOp.before.partial # "" => lastOp.invocations = <<>>
        /\ lastOp.invocations = ChunkInvocations(lastOp.chunk)
        /\ calls[lastOp.call].promise # "rejected"

(***************************************************************************)
(* Two streams in flight                                                   *)
(***************************************************************************)
\* The chunks of two concurrent bodies: a frame, two frames, a line that is
\* not JSON, and the sentinel.
PairChunks ==
    {"data: 1\n", "data: 12\ndata: 1\n", "data: {not json\n", "data: [DONE]\n"}

NextStreams ==
    \/ Dispatch("stream")
    \/ \E i \in 1..MaxCalls : StreamOpen(i)
    \/ \E i \in 1..MaxCalls, c \in PairChunks : StreamData(i, c)
    \/ \E i \in 1..MaxCalls : StreamEnd(i)
    \/ \E i \in 1..MaxCalls : StreamError(i)
    \/ \E i \in 1..MaxCalls : Forget(i)

SpecStreams == InitReady /\ [][NextStreams]_vars

\* C26: the streams in flight on one client are independent: a chunk, the
\* end or an error of one stream adds that chunk's frames, in order, to the
\* invocations of that stream's consumer, settles at most that stream's
\* promise, and leaves every other stream exactly as it was.
C26_StreamsIndependent ==
    [][lastOp'.op \in {"data", "end", "streamError"} =>
         LET i == lastOp'.call
         IN /\ Len(calls') = Len(calls)
            /\ \A j \in 1..Len(calls) : j # i => calls'[j] = calls[j]
            /\ lastOp'.op = "data" =>
                   calls'[i].consumed =
                       calls[i].consumed \o ChunkInvocations(lastOp'.chunk)
            /\ lastOp'.op # "data" => calls'[i].consumed = calls[i].consumed]_vars

\* Two streams with their chunks interleaved: the first got a frame and the
\* sentinel and is resolved, the second got two frames and is still pending.
C26_Witness ==
    /\ lastOp.op = "data"
    /\ lastOp.call = 2
    /\ Len(calls) = 2
    /\ calls[1].stage = "streaming" /\ calls[2].stage = "streaming"
    /\ calls[1].consumed = <<[type |-> "number", value |-> 1]>>
    /\ calls[1].promise = "resolved"
    /\ calls[2].consumed = <<[type |-> "number", value |-> 12],
                             [type |-> "number", value |-> 1]>>
    /\ calls[2].promise = "pending"

(***************************************************************************)
(* A consumer that throws                                                  *)
(***************************************************************************)
NextConsumer ==
    \/ calls = <<>> /\ Dispatch("stream")
    \/ \E onChunk \in Consumers : StreamOpenWith(1, onChunk)
    \/ \E c \in PairChunks : StreamData(1, c)
    \/ StreamEnd(1)
    \/ StreamError(1)
    \/ Forget(1)

SpecConsumer == InitReady /\ [][NextConsumer]_vars

\* C27: what onChunk throws on a decoded frame is swallowed like a line that
\* does not parse: the remaining frames of the chunk are still handed to
\* onChunk, the promise is rejected by no chunk and is resolved only by a
\* sentinel, the source keeps flowing so that later chunks are processed,
\* and the call to stream() reports nothing.
C27_ConsumerExceptionSwallowed ==
    lastOp.op = "data" =>
        LET before == lastOp.before
            after == calls[lastOp.call]
            invocations == ChunkInvocations(lastOp.chunk)
        IN /\ after.consumed = before.consumed \o invocations
           /\ after.swallowed = before.swallowed + Thrown(before.onChunk, invocations)
           /\ after.promise =
                  IF before.promise = "pending" /\ ChunkHasSentinel(lastOp.chunk)
                  THEN "resolved" ELSE before.promise
           /\ after.reason = before.reason
           /\ after.source = "flowing"
           /\ lastOp.ok
           /\ thrown = NoError

\* A second chunk is processed after the consumer threw on the first frame of
\* a two-frame chunk and was handed the second one; the promise is pending.
C27_Witness ==
    /\ lastOp.op = "data"
    /\ calls[1].onChunk = Throws
    /\ calls[1].chunks = 2
    /\ lastOp.before.swallowed = 1
    /\ calls[1].swallowed = 2
    /\ calls[1].consumed = <<[type |-> "number", value |-> 12],
                             [type |-> "number", value |-> 1],
                             [type |-> "number", value |-> 12],
                             [type |-> "number", value |-> 1]>>
    /\ calls[1].promise = "pending"

(***************************************************************************)
(* The completion settles once                                             *)
(***************************************************************************)
NextSettle ==
    \/ calls = <<>> /\ Dispatch("stream")
    \/ StreamOpen(1)
    \/ \E c \in PairChunks : StreamData(1, c)
    \/ StreamEnd(1)
    \/ StreamError(1)
    \/ \E c \in PairChunks : LateData(1, c)
    \/ LateEnd(1)
    \/ LateError(1)
    \/ Forget(1)

SpecSettle == InitReady /\ [][NextSettle]_vars

\* C28: the completion of a stream settles at most once: once it is resolved
\* or rejected, no data, end or error event, in whatever order the source
\* emits them, changes its outcome or its reason.
C28_SettlesOnce ==
    [][\A i \in 1..Len(calls) :
          (/\ Len(calls') = Len(calls)
           /\ calls[i].stage = "streaming"
           /\ calls[i].promise # "pending")
          => /\ calls'[i].promise = calls[i].promise
             /\ calls'[i].reason = calls[i].reason]_vars

\* An 'end' delivered after the transport error that rejected the promise:
\* the promise is still rejected with STREAM_ERROR.
C28_Witness ==
    /\ lastOp.op = "end"
    /\ lastOp.before.promise = "rejected"
    /\ calls[lastOp.call].promise = "rejected"
    /\ calls[lastOp.call].reason.code = "STREAM_ERROR"

\* A transport error delivered after the sentinel resolved the promise: the
\* promise is still resolved.
C28_WitnessErrorAfterSentinel ==
    /\ lastOp.op = "streamError"
    /\ lastOp.before.promise = "resolved"
    /\ lastOp.before.sentinelSeen
    /\ calls[lastOp.call].promise = "resolved"

\* The frames among the lines a 'data' event visits, in line order.
FramesOf(chunk) == SelectSeq(Visited(LinesOf(chunk)), IsFrame)

\* C11: a `data: ` line whose text is not valid JSON is discarded: it causes
\* no consumer invocation, does not settle the promise and changes nothing of
\* the decoder; the valid frames the handler visits after it, in the same
\* chunk and in later chunks, are all decoded and delivered in order.
C11_MalformedLineDiscarded ==
    (lastOp.op = "data" /\ lastOp.before.discarded + ChunkDiscarded(lastOp.chunk) > 0) =>
        LET after == calls[lastOp.call]
        IN /\ Len(lastOp.invocations) = Len(FramesOf(lastOp.chunk))
           /\ \A k \in 1..Len(lastOp.invocations) :
                  lastOp.invocations[k] = JsonParse(JsonStr(FramesOf(lastOp.chunk)[k]))
           /\ after.consumed = lastOp.before.consumed \o lastOp.invocations
           /\ after.source = lastOp.before.source
           /\ ~ChunkHasSentinel(lastOp.chunk) =>
                  /\ after.promise = lastOp.before.promise
                  /\ after.reason = lastOp.before.reason
                  /\ after.sentinelSeen = lastOp.before.sentinelSeen
           /\ after.promise # "rejected"

\* A chunk with a malformed line followed by a frame arrives after a chunk that
\* had a malformed line: the frame is delivered and the promise stays pending.
C11_Witness ==
    /\ lastOp.op = "data"
    /\ lastOp.before.discarded > 0
    /\ lastOp.chunk = "data: {not json\ndata: {\"a\":1}\n"
    /\ lastOp.invocations = <<[type |-> "object", a |-> 1]>>
    /\ calls[lastOp.call].promise = "pending"

\* C12: a stream error while the promise is pending (the decoder is open)
\* rejects it with a NeuralNexusError of code STREAM_ERROR whose details are
\* the raw error, and the source delivers nothing more; a failed initial POST
\* rejects the call with a NeuralNexusError straight after its dispatch, with
\* no handler attached and so no consumer invocation.
C12_StreamErrorRejects ==
    /\ (lastOp.op = "streamError" /\ lastOp.before.promise = "pending") =>
           /\ calls[lastOp.call].promise = "rejected"
           /\ calls[lastOp.call].reason =
                  NeuralNexusError("Stream error", "STREAM_ERROR",
                                   [kind |-> "raw", error |-> StreamFault])
           /\ calls[lastOp.call].source = "errored"
           /\ calls[lastOp.call].consumed = lastOp.before.consumed
    /\ (lastOp.op = "settle" /\ lastOp.method = "stream") =>
           /\ ~lastOp.ok
           /\ IsNeuralNexusError(lastOp.raised)
           /\ lastOp.raised.message # "" /\ lastOp.raised.code # ""
           /\ lastOp.prev.op = "dispatch"
           /\ calls = <<>>

\* The source fails in the middle of a stream that has delivered a frame.
C12_Witness ==
    /\ lastOp.op = "streamError"
    /\ lastOp.before.promise = "pending"
    /\ lastOp.before.consumed # <<>>
    /\ calls[lastOp.call].promise = "rejected"
    /\ calls[lastOp.call].reason.code = "STREAM_ERROR"

\* The same stream on a transport that eventually ends or fails every body
\* it has started to deliver.
SpecStreamLive ==
    InitReady /\ [][NextStream]_vars /\ WF_vars(StreamEnd(1) \/ StreamError(1))

StreamPending ==
    Len(calls) = 1 /\ calls[1].stage = "streaming" /\ calls[1].promise = "pending"

\* C13: when the transport signals the end of the body and no `[DONE]` has
\* been seen, the promise resolves and the stream is over; a source that has
\* ended or failed never leaves the promise pending, so on a transport that
\* eventually ends or fails the promise is eventually settled.
C13_EndSettles ==
    /\ [](lastOp.op = "end" /\ ~lastOp.before.sentinelSeen =>
             /\ calls[lastOp.call].promise = "resolved"
             /\ calls[lastOp.call].reason = NoError
             /\ calls[lastOp.call].source = "ended")
    /\ [](\A i \in 1..Len(calls) :
             (calls[i].stage = "streaming" /\ calls[i].source # "flowing") =>
                 calls[i].promise # "pending")
    /\ (StreamPending ~> ~StreamPending)

\* The body ends after a frame was delivered and no sentinel arrived.
C13_Witness ==
    /\ lastOp.op = "end"
    /\ ~lastOp.before.sentinelSeen
    /\ lastOp.before.promise = "pending"
    /\ lastOp.before.consumed # <<>>
    /\ calls[lastOp.call].promise = "resolved"

\* C14: the consumer invocations of a stream are the frames its handler decodes,
\* in arrival order: each chunk's invocations follow those of the chunks before
\* it, and inside a chunk the k-th decoded frame is the k-th invocation; a line
\* that does not begin with `data: ` produces none.
C14_InvocationsInArrivalOrder ==
    lastOp.op = "data" =>
        LET lines == Visited(LinesOf(lastOp.chunk))
            frames == {k \in 1..Len(lines) : IsFrame(lines[k])}
            rank(k) == Cardinality({j \in frames : j <= k})
            after == calls[lastOp.call].consumed
            before == lastOp.before.consumed
        IN /\ Len(after) = Len(before) + Cardinality(frames)
           /\ \A n \in 1..Len(before) : after[n] = before[n]
           /\ \A k \in frames :
                  after[Len(before) + rank(k)] = JsonParse(JsonStr(lines[k]))
           /\ (\A k \in 1..Len(lines) : ~StartsWithData(lines[k])) => after = before

\* Two different frames arrive in one chunk after an earlier chunk delivered
\* one: the three invocations are in arrival order.
C14_Witness ==
    /\ lastOp.op = "data"
    /\ lastOp.before.consumed = <<[type |-> "object", a |-> 1]>>
    /\ lastOp.chunk = "data: 12\ndata: 1\n"
    /\ calls[lastOp.call].consumed =
           <<[type |-> "object", a |-> 1], [type |-> "number", value |-> 12],
             [type |-> "number", value |-> 1]>>

NextAuth ==
    \/ \E t \in Tokens : SetToken(t)
    \/ ClearToken
    \/ \E m \in Methods : Dispatch(m)
    \/ \E i \in 1..MaxCalls : RespondSuccess(i)
    \/ \E i \in 1..MaxCalls, f \in NetworkFailures : RespondFailure(i, f)

SpecAuth == InitReady /\ [][NextAuth]_vars

\* The identity the last setToken/clearToken call selected.
ActiveIdentity == IF lastWrite = Null THEN config.apiKey ELSE lastWrite

\* C1: the Authorization header of a request is `Bearer t` for the argument t
\* of the most recent setToken when no clearToken followed it, and
\* `Bearer <apiKey>` otherwise.
C1_BearerIsActiveIdentity ==
    lastOp.op = "dispatch" => lastOp.Authorization = Bearer(ActiveIdentity)

\* What the code does instead: every request carries the configured apiKey.
C1_Observed ==
    lastOp.op = "dispatch" => lastOp.Authorization = Bearer(config.apiKey)

\* C21: setToken and clearToken leave the requests in flight as they were
\* dispatched, and a request dispatched after several writes carries the
\* identity of the last of them.
C21_LastWriteAtDispatch ==
    [][/\ lastOp'.op \in {"setToken", "clearToken"} => calls' = calls
       /\ lastOp'.op = "dispatch" =>
              /\ SubSeq(calls', 1, Len(calls)) = calls
              /\ calls'[Len(calls')].Authorization =
                     Bearer(IF lastWrite = Null THEN config.apiKey ELSE lastWrite)]_vars

\* What the code gives: a request in flight keeps the header it was dispatched
\* with, which is the configured apiKey whatever was written.
C21_InFlightKept ==
    [][/\ lastOp'.op \in {"setToken", "clearToken"} => calls' = calls
       /\ lastOp'.op = "dispatch" =>
              /\ SubSeq(calls', 1, Len(calls)) = calls
              /\ calls'[Len(calls')].Authorization = Bearer(config.apiKey)]_vars

(***************************************************************************)
(* Failing requests, one call at a time, with `error` listeners            *)
(***************************************************************************)
\* A caller that awaits each call before the next one.
DispatchAlone(m) == calls = <<>> /\ Dispatch(m)

\* The shapes of a failed response: the nested error object and the flat
\* fields are each absent, present, or present with empty strings.
Absent(a, b, c) == a = Undef /\ b = Undef /\ c = Undef
Empty(a, b, c) == a = "" /\ b = "" /\ c = Undef
Present(a, b, c) == ~Falsy(a) /\ ~Falsy(b) /\ ~Falsy(c)
Shaped(a, b, c) == Absent(a, b, c) \/ Empty(a, b, c) \/ Present(a, b, c)

ShapedFailures ==
    {f \in TransportFailures :
        /\ Shaped(f.errMessage, f.errCode, f.errDetails)
        /\ Shaped(f.dataMessage, f.dataCode, f.dataDetails)}

NextFailures ==
    \/ \E m \in Methods : DispatchAlone(m)
    \/ RespondSuccess(1)
    \/ \E f \in ShapedFailures : RespondFailure(1, f)
    \/ \E l \in {"A", "R"} : On(ERROR, l)
    \/ \E l \in {"A", "R"} : Off(ERROR, l)
    \/ StreamOpen(1)
    \/ StreamEnd(1)
    \/ StreamError(1)
    \/ Forget(1)

SpecFailures == InitReady /\ [][NextFailures]_vars

NonEmpty(v) == ~Falsy(v)

\* A call has just rejected: a request method whose exchange failed, or a
\* stream whose source failed while its promise was pending.
RequestRejected == lastOp.op = "settle" /\ ~lastOp.ok
StreamRejected == lastOp.op = "streamError" /\ lastOp.before.promise = "pending"

\* C2: whatever the transport failed with, what get, post, put, delete, upload
\* or stream raises is a NeuralNexusError with a message and a code: an error
\* that is one already is passed on unchanged, any other value is wrapped.
C2_EveryFailureNormalized ==
    /\ RequestRejected =>
        /\ IsNeuralNexusError(lastOp.raised)
        /\ NonEmpty(lastOp.raised.message)
        /\ NonEmpty(lastOp.raised.code)
        /\ IsNeuralNexusError(lastOp.rejection) => lastOp.raised = lastOp.rejection
        /\ ~IsNeuralNexusError(lastOp.rejection) =>
               /\ lastOp.raised.code = "API_REQUEST_FAILED"
               /\ lastOp.raised.details.error = lastOp.rejection
    /\ StreamRejected =>
        /\ calls[lastOp.call].promise = "rejected"
        /\ IsNeuralNexusError(calls[lastOp.call].reason)
        /\ NonEmpty(calls[lastOp.call].reason.message)
        /\ NonEmpty(calls[lastOp.call].reason.code)

\* An upload fails while an `error` listener raises: the listener's exception
\* reaches the catch block and is wrapped.
C2_Witness ==
    /\ RequestRejected
    /\ lastOp.method = "upload"
    /\ lastOp.rejection = ListenerException("R")
    /\ lastOp.raised.code = "API_REQUEST_FAILED"

NextNormalizer ==
    \/ DispatchAlone("get")
    \/ \E f \in TransportFailures : RespondFailure(1, f)
    \/ \E l \in {"A", "R"} : On(ERROR, l)

SpecNormalizer == InitReady /\ [][NextNormalizer]_vars

C29_EmissionNeverChangesRejection ==
    (RequestRejected /\ lastOp.method # "stream") =>
        /\ IsNeuralNexusError(lastOp.raised)
        /\ lastOp.raised.message = Normalized(lastOp.failure).message
        /\ lastOp.raised.code = Normalized(lastOp.failure).code

\* What the code gives: the normalized error with no `error` listener and
\* with listeners that return; with a listener that raises, an
\* API_REQUEST_FAILED error that wraps what the listener raised.
C29_Observed ==
    (RequestRejected /\ lastOp.method # "stream") =>
        /\ ~HasRaiser(listeners[ERROR]) => lastOp.raised = Normalized(lastOp.failure)
        /\ HasRaiser(listeners[ERROR]) =>
               /\ lastOp.raised.code = "API_REQUEST_FAILED"
               /\ lastOp.raised.message = FailedMessage(lastOp.method)
               /\ lastOp.raised.details.error = ListenerException("R")

(***************************************************************************)
(* One exchange per call                                                   *)
(***************************************************************************)
\* C15: a call of get, post, put, delete or upload performs exactly one
\* network exchange: the call settles in the step in which its exchange
\* succeeds or fails, a failure raises at once, and no call in flight has
\* sent a second exchange.
C15_OneExchangePerCall ==
    /\ \A i \in 1..Len(calls) : calls[i].exchanges = 1
    /\ lastOp.op # "retry"
    /\ (lastOp.op = "settle" /\ lastOp.method # "stream") =>
           /\ lastOp.exchanges = 1
           /\ calls = <<>>
           /\ ~lastOp.ok => IsNeuralNexusError(lastOp.raised)

\* A put whose only exchange failed has been raised to its caller.
C15_Witness ==
    /\ lastOp.op = "settle"
    /\ lastOp.method = "put"
    /\ ~lastOp.ok
    /\ lastOp.exchanges = 1
    /\ IsNeuralNexusError(lastOp.raised)
    /\ calls = <<>>

(***************************************************************************)
(* Requests around close()                                                 *)
(***************************************************************************)
NextLifecycle ==
    \/ \E l \in {"A", "R"} : On(DISCONNECTED, l)
    \/ \E l \in {"A", "R"} : Off(DISCONNECTED, l)
    \/ Close
    \/ \E m \in Methods : DispatchAlone(m)
    \/ RespondSuccess(1)
    \/ \E f \in NetworkFailures : RespondFailure(1, f)
    \/ StreamOpen(1)
    \/ StreamEnd(1)
    \/ Forget(1)

SpecLifecycle == InitLogged /\ [][NextLifecycle]_vars

\* C16: once close() has returned the client is closed for good: no later
\* get, post, put, delete, upload or stream call dispatches a network exchange.
C16_ClosedIsTerminal ==
    (closure.returned /\ lastOp.op = "dispatch") => calls = <<>>

(***************************************************************************)
(* upload(): the progress callback                                         *)
(***************************************************************************)
\* The bodies uploaded: a size in bytes, whether the transport can compute it
\* (progressEvent.total is undefined when it cannot), and whether the caller
\* passed onProgress.
Sizes == {0, 3, 8}
Bodies == [size : Sizes, lengthComputable : BOOLEAN, onProgress : BOOLEAN]

MaxProgress == 3

\* A plausible slip: the percentage truncated, Math.floor.
MathFloor(num, den) == num \div den

\* Math.round(num / den) for a non-negative quotient: the nearest integer,
\* a half rounded up.
MathRound(num, den) == (2 * num + den) \div (2 * den)

\* upload(endpoint, formData, onProgress) up to its await: one POST is
\* dispatched, with onUploadProgress installed.
DispatchUpload(body) ==
    /\ phase = "ready"
    /\ calls = <<>>
    /\ calls' = <<[method |-> "upload", stage |-> "awaiting", exchanges |-> 1,
                   Authorization |-> RequestAuthorization(axiosInstance),
                   body |-> body, loaded |-> 0, events |-> 0, reported |-> <<>>]>>
    /\ lastOp' = [op |-> "dispatch", ok |-> TRUE, prev |-> Prev, method |-> "upload",
                  Authorization |-> RequestAuthorization(axiosInstance)]
    /\ UNCHANGED <<phase, given, thrown, config, axiosInstance, token, lastWrite,
                   listeners, returned, closure, heap, currentUser>>

\* if (onProgress && progressEvent.total): total is undefined when the length
\* is not computable, and 0 is falsy.
Reports(body) == body.onProgress /\ body.lengthComputable /\ body.size # 0

\* The transport reports that `loaded` bytes of the body of call i were sent
\* (loaded never goes back): onUploadProgress runs.
UploadProgress(i, loaded) ==
    /\ i \in 1..Len(calls)
    /\ calls[i].method = "upload"
    /\ calls[i].stage = "awaiting"
    /\ calls[i].events < MaxProgress
    /\ loaded \in calls[i].loaded..calls[i].body.size
    /\ calls' = [calls EXCEPT
                    ![i].loaded = loaded,
                    ![i].events = @ + 1,
                    ![i].reported =
                        IF Reports(calls[i].body)
                        THEN Append(@, MathRound(loaded * 100, calls[i].body.size))
                        ELSE @]
    /\ lastOp' = [op |-> "progress", ok |-> TRUE, prev |-> Prev, call |-> i,
                  loaded |-> loaded, before |-> calls[i]]
    /\ UNCHANGED <<phase, given, thrown, config, axiosInstance, token, lastWrite,
                   listeners, returned, closure, heap, currentUser>>

NextUpload ==
    \/ \E body \in Bodies : DispatchUpload(body)
    \/ \E loaded \in 0..8 : UploadProgress(1, loaded)
    \/ RespondSuccess(1)
    \/ \E f \in NetworkFailures : RespondFailure(1, f)

SpecUpload == InitReady /\ [][NextUpload]_vars

\* C19: onProgress is called only for a progress event whose total is known,
\* with round(loaded*100/total); the values reported over one upload never
\* decrease, the value reported once the whole body is sent is 100, and with
\* an unknown total nothing is reported.
C19_UploadProgress ==
    lastOp.op = "progress" =>
        LET call == calls[lastOp.call]
            was == lastOp.before.reported
            now == call.reported
            total == call.body.size
        IN /\ IsPrefix(was, now)
           /\ Len(now) <= Len(was) + 1
           /\ now # was => call.body.lengthComputable /\ call.body.onProgress
           /\ ~call.body.lengthComputable => now = <<>>
           /\ (call.body.onProgress /\ call.body.lengthComputable /\ total > 0) =>
                  /\ Len(now) = Len(was) + 1
                  /\ 2 * now[Len(now)] * total <= 200 * lastOp.loaded + total
                  /\ 200 * lastOp.loaded < 2 * now[Len(now)] * total + total
                  /\ lastOp.loaded = total => now[Len(now)] = 100
           /\ \A j \in 1..Len(now), k \in 1..Len(now) : j <= k => now[j] <= now[k]

\* An upload of 8 bytes reported at 1, 5 and 8 bytes: 13, 63, 100.
C19_Witness ==
    /\ lastOp.op = "progress"
    /\ calls[lastOp.call].body.size = 8
    /\ calls[lastOp.call].reported = <<13, 63, 100>>

(***************************************************************************)
(* getConfig() and the caller's writes to what it returned                 *)
(***************************************************************************)
\* The client after `new NeuralNexus({ apiKey: 'test-key', environment:
\* 'development', storageConfig: { bucketName: 'models' }, authConfig:
\* { provider: 'firebase' } })`: { ...config, apiUrl, timeout, storageProvider }
\* copies the two references, so this.config refers to the caller's objects.
StorageConfigRef == "object:storageConfig"
AuthConfigRef == "object:authConfig"

TestObjects ==
    (StorageConfigRef :> [kind |-> "StorageConfig", bucketName |-> "models",
                          provider |-> Undef])
    @@ (AuthConfigRef :> [kind |-> "AuthConfig", bucketName |-> Undef,
                          provider |-> "firebase"])

NestedConfig ==
    DefaultedConfig(TestConfig)
        @@ [storageConfig |-> StorageConfigRef, authConfig |-> AuthConfigRef]

InitNested ==
    /\ phase = "ready"
    /\ given = TestConfig
    /\ thrown = NoError
    /\ config = NestedConfig
    /\ axiosInstance = CreateAxios(NestedConfig)
    /\ token = Null
    /\ lastWrite = Null
    /\ listeners = NoListeners
    /\ calls = <<>>
    /\ lastOp = [op |-> "construct", ok |-> TRUE,
                 prev |-> [op |-> "none", ok |-> TRUE],
                 emissions |-> <<Emission(CONNECTED, NoPayload, <<>>)>>]
    /\ returned = NoConfig
    /\ closure = NeverClosed
    /\ heap = TestObjects
    /\ currentUser = Null

\* A configuration with the objects it refers to written out.
NestedFields == {"storageConfig", "authConfig"}

Deep(cfg, objects) ==
    [f \in DOMAIN cfg |->
        IF f \in NestedFields /\ cfg[f] \in DOMAIN objects
        THEN objects[cfg[f]] ELSE cfg[f]]

\* The fields a caller writes and the values written.
TopFields == {"apiKey", "apiUrl", "storageProvider", "storageConfig", "authConfig"}
NestedKeys == {"bucketName", "provider"}
Written == {"changed", Undef}

\* The caller assigns a field of the object getConfig() returned.
WriteReturned(f, v) ==
    /\ lastOp.op \in {"getConfig", "write"}
    /\ returned' = [returned EXCEPT ![f] = v]
    /\ lastOp' = [op |-> "write", ok |-> TRUE, prev |-> Prev, nested |-> FALSE,
                  held |-> Deep(config, heap)]
    /\ UNCHANGED <<phase, given, thrown, config, axiosInstance, token, lastWrite,
                   listeners, calls, closure, heap, currentUser>>

\* The caller assigns a field of the storageConfig or authConfig object that
\* the object getConfig() returned refers to.
WriteNested(f, k, v) ==
    /\ lastOp.op \in {"getConfig", "write"}
    /\ returned[f] \in DOMAIN heap
    /\ heap' = [heap EXCEPT ![returned[f]][k] = v]
    /\ lastOp' = [op |-> "write", ok |-> TRUE, prev |-> Prev, nested |-> TRUE,
                  held |-> Deep(config, heap)]
    /\ UNCHANGED <<phase, given, thrown, config, axiosInstance, token, lastWrite,
                   listeners, calls, returned, closure, currentUser>>

NextCopy ==
    \/ GetConfig
    \/ \E f \in TopFields, v \in Written : WriteReturned(f, v)
    \/ \E f \in NestedFields, k \in NestedKeys, v \in Written : WriteNested(f, k, v)

SpecCopy == InitNested /\ [][NextCopy]_vars

\* C20: no write a caller makes to the object getConfig() returned, or to the
\* storageConfig and authConfig objects it refers to, changes the
\* configuration the client holds.
C20_DefensiveCopy ==
    lastOp.op = "write" => Deep(config, heap) = lastOp.held

\* What the code gives: a write to a field of the returned object itself
\* leaves the client's configuration as it was.
C20_TopLevelCopied ==
    (lastOp.op = "write" /\ ~lastOp.nested) => Deep(config, heap) = lastOp.held

(***************************************************************************)
(* SdkManager (managers/SdkManager.ts)                                     *)
(***************************************************************************)
\* The language strings a caller passes: the ten of SdkLanguage and some that
\* are not, among them the empty string and a differently cased name.
Languages ==
    {"typescript", "javascript", "python", "go", "java", "ruby", "csharp", "php",
     "swift", "rust", "", "Python", "kotlin", "rust ", "c++", "ts"}

\* SdkOptions: the language and two of the optional flags (none is read).
SdkOptions == [language : Languages, includeExamples : BOOLEAN, includeComments : BOOLEAN]

\* The string SdkTemplates.<name>(apiKey) returns.
SdkTemplate(name) == [type |-> "string", template |-> name, apiKey |-> "YOUR_API_KEY"]

\* A plausible slip: the switch without its last case.
generateSdkWithoutRust(options) ==
    CASE options.language \in {"typescript", "javascript"} -> SdkTemplate("typescript")
      [] options.language \in {"python", "go", "java", "ruby", "csharp", "php", "swift"} ->
             SdkTemplate(options.language)
      [] OTHER ->
             NeuralNexusError("SDK generation for " \o options.language
                                  \o " is not yet supported",
                              "UNSUPPORTED_LANGUAGE", NoDetails)

\* generateSdk(options): what the switch returns, or the error its default
\* branch throws.
generateSdk(options) ==
    CASE options.language = "typescript" -> SdkTemplate("typescript")
      [] options.language = "javascript" -> SdkTemplate("typescript")
      [] options.language = "python" -> SdkTemplate("python")
      [] options.language = "go" -> SdkTemplate("go")
      [] options.language = "java" -> SdkTemplate("java")
      [] options.language = "ruby" -> SdkTemplate("ruby")
      [] options.language = "csharp" -> SdkTemplate("csharp")
      [] options.language = "php" -> SdkTemplate("php")
      [] options.language = "swift" -> SdkTemplate("swift")
      [] options.language = "rust" -> SdkTemplate("rust")
      [] OTHER ->
             NeuralNexusError("SDK generation for " \o options.language
                                  \o " is not yet supported",
                              "UNSUPPORTED_LANGUAGE", NoDetails)

\* getSupportedLanguages()
getSupportedLanguages ==
    <<"typescript", "javascript", "python", "go", "java", "ruby", "csharp", "php",
      "swift", "rust">>

\* isLanguageSupported(language): this.getSupportedLanguages().includes(language)
isLanguageSupported(language) ==
    \E k \in 1..Len(getSupportedLanguages) : getSupportedLanguages[k] = language

\* A call of generateSdk, with the answers of the two queries for its language.
GenerateSdk(options) ==
    /\ phase = "ready"
    /\ lastOp' = [op |-> "generateSdk", prev |-> Prev, options |-> options,
                  ok |-> ~IsNeuralNexusError(generateSdk(options)),
                  result |-> generateSdk(options),
                  supported |-> isLanguageSupported(options.language),
                  languages |-> getSupportedLanguages]
    /\ UNCHANGED <<phase, given, thrown, config, axiosInstance, token, lastWrite,
                   listeners, calls, returned, closure, heap, currentUser>>

NextSdk == \E options \in SdkOptions : GenerateSdk(options)

SpecSdk == InitReady /\ [][NextSdk]_vars

\* C22: isLanguageSupported(l) is true exactly when l is in
\* getSupportedLanguages(), and exactly then generateSdk({language: l})
\* returns a string; for every other l, the empty string included, it throws
\* a NeuralNexusError with code UNSUPPORTED_LANGUAGE.
C22_SupportedLanguages ==
    lastOp.op = "generateSdk" =>
        LET l == lastOp.options.language
            listed == \E k \in 1..Len(lastOp.languages) : lastOp.languages[k] = l
        IN /\ lastOp.supported <=> listed
           /\ listed <=> lastOp.result.type = "string"
           /\ ~listed =>
                  /\ ~lastOp.ok
                  /\ IsNeuralNexusError(lastOp.result)
                  /\ lastOp.result.code = "UNSUPPORTED_LANGUAGE"
           /\ calls = <<>>

\* generateSdk({language: 'rust'}) returned the rust template.
C22_Witness ==
    /\ lastOp.op = "generateSdk"
    /\ lastOp.options.language = "rust"
    /\ lastOp.supported
    /\ lastOp.result = SdkTemplate("rust")

(***************************************************************************)
(* The managers' argument validation (ModelManager, Payments, Auth,        *)
(* ProfileManager, StorageManager)                                         *)
(***************************************************************************)
\* The operations with required arguments: the `if (!arg) throw` checks at the
\* head of each, in order, with the arguments each check reads, its message,
\* the operation's validation code, and the client method called next.
ManagerOps ==
    {
     [manager |-> "ModelManager", name |-> "getModel", required |-> 1,
      code |-> "INVALID_MODEL_ID", method |-> "get",
      checks |-> <<[args |-> {1}, message |-> "Model ID is required"]>>],
     [manager |-> "ModelManager", name |-> "downloadModel", required |-> 1,
      code |-> "INVALID_MODEL_ID", method |-> "get",
      checks |-> <<[args |-> {1}, message |-> "Model ID is required"]>>],
     [manager |-> "ModelManager", name |-> "updateModel", required |-> 1,
      code |-> "INVALID_MODEL_ID", method |-> "put",
      checks |-> <<[args |-> {1}, message |-> "Model ID is required"]>>],
     [manager |-> "ModelManager", name |-> "deleteModel", required |-> 1,
      code |-> "INVALID_MODEL_ID", method |-> "delete",
      checks |-> <<[args |-> {1}, message |-> "Model ID is required"]>>],
     [manager |-> "ModelManager", name |-> "getModelDownloadUrl", required |-> 1,
      code |-> "INVALID_MODEL_ID", method |-> "get",
      checks |-> <<[args |-> {1}, message |-> "Model ID is required"]>>],
     [manager |-> "Payments", name |-> "purchaseModel", required |-> 2,
      code |-> "INVALID_PURCHASE_DATA", method |-> "post",
      checks |-> <<[args |-> {1}, message |-> "Model ID is required"], [args |-> {2}, message |-> "Payment method is required"]>>],
     [manager |-> "Payments", name |-> "validateCoupon", required |-> 1,
      code |-> "INVALID_COUPON", method |-> "get",
      checks |-> <<[args |-> {1}, message |-> "Coupon code is required"]>>],
     [manager |-> "Payments", name |-> "subscribeToPlan", required |-> 2,
      code |-> "INVALID_SUBSCRIPTION_DATA", method |-> "post",
      checks |-> <<[args |-> {1}, message |-> "Plan ID is required"], [args |-> {2}, message |-> "Payment method is required"]>>],
     [manager |-> "Payments", name |-> "getTransaction", required |-> 1,
      code |-> "INVALID_TRANSACTION_ID", method |-> "get",
      checks |-> <<[args |-> {1}, message |-> "Transaction ID is required"]>>],
     [manager |-> "Payments", name |-> "calculatePrice", required |-> 1,
      code |-> "INVALID_MODEL_ID", method |-> "get",
      checks |-> <<[args |-> {1}, message |-> "Model ID is required"]>>],
     [manager |-> "Auth", name |-> "login", required |-> 2,
      code |-> "INVALID_CREDENTIALS", method |-> "post",
      checks |-> <<[args |-> {1, 2}, message |-> "Email and password are required"]>>],
     [manager |-> "Auth", name |-> "register", required |-> 3,
      code |-> "INVALID_REGISTRATION_DATA", method |-> "post",
      checks |-> <<[args |-> {1, 2, 3}, message |-> "Email, password, and username are required"]>>],
     [manager |-> "Auth", name |-> "resetPassword", required |-> 1,
      code |-> "INVALID_EMAIL", method |-> "post",
      checks |-> <<[args |-> {1}, message |-> "Email is required"]>>],
     [manager |-> "ProfileManager", name |-> "getUserProfile", required |-> 1,
      code |-> "INVALID_USER_ID", method |-> "get",
      checks |-> <<[args |-> {1}, message |-> "User ID is required"]>>],
     [manager |-> "ProfileManager", name |-> "followUser", required |-> 1,
      code |-> "INVALID_USER_ID", method |-> "post",
      checks |-> <<[args |-> {1}, message |-> "User ID is required"]>>],
     [manager |-> "ProfileManager", name |-> "unfollowUser", required |-> 1,
      code |-> "INVALID_USER_ID", method |-> "post",
      checks |-> <<[args |-> {1}, message |-> "User ID is required"]>>],
     [manager |-> "StorageManager", name |-> "getFileMetadata", required |-> 1,
      code |-> "INVALID_FILE_PATH", method |-> "get",
      checks |-> <<[args |-> {1}, message |-> "File path is required"]>>],
     [manager |-> "StorageManager", name |-> "deleteFile", required |-> 1,
      code |-> "INVALID_FILE_PATH", method |-> "delete",
      checks |-> <<[args |-> {1}, message |-> "File path is required"]>>],
     [manager |-> "StorageManager", name |-> "getDownloadUrl", required |-> 1,
      code |-> "INVALID_FILE_PATH", method |-> "get",
      checks |-> <<[args |-> {1}, message |-> "File path is required"]>>],
     [manager |-> "StorageManager", name |-> "makeFilePublic", required |-> 1,
      code |-> "INVALID_FILE_PATH", method |-> "post",
      checks |-> <<[args |-> {1}, message |-> "File path is required"]>>],
     [manager |-> "StorageManager", name |-> "makeFilePrivate", required |-> 1,
      code |-> "INVALID_FILE_PATH", method |-> "post",
      checks |-> <<[args |-> {1}, message |-> "File path is required"]>>]
    }

\* What a caller passes for a required argument.
ArgValues == {Undef, Null, "", "value"}

ArgsOf(o) == [1..o.required -> ArgValues]

\* A plausible slip: only undefined and null count as missing (arg == null).
MissingNullish(v) == v \in {Undef, Null}

\* !arg
Missing(v) == Falsy(v)

FailsCheck(check, args) == \E a \in check.args : Missing(args[a])

\* The error the checks of operation o throw for the arguments, NoError when
\* all pass: the first failing check decides.
Validation(o, args) ==
    IF \E k \in 1..Len(o.checks) : FailsCheck(o.checks[k], args)
    THEN LET first == CHOOSE k \in 1..Len(o.checks) :
                          /\ FailsCheck(o.checks[k], args)
                          /\ \A j \in 1..(k - 1) : ~FailsCheck(o.checks[j], args)
         IN NeuralNexusError(o.checks[first].message, o.code, NoDetails)
    ELSE NoError

\* A manager operation up to its first await: it throws on an argument that
\* fails a check, and calls the client method otherwise.
ManagerCall(o, args) ==
    /\ phase = "ready"
    /\ calls = <<>>
    /\ calls' = IF Validation(o, args) # NoError THEN calls
                ELSE <<[method |-> o.method, stage |-> "awaiting", exchanges |-> 1,
                        Authorization |-> RequestAuthorization(axiosInstance)]>>
    /\ lastOp' = [op |-> "manager", prev |-> Prev, manager |-> o.manager,
                  name |-> o.name, code |-> o.code, args |-> args,
                  ok |-> Validation(o, args) = NoError,
                  raised |-> Validation(o, args), emissions |-> <<>>]
    /\ UNCHANGED <<phase, given, thrown, config, axiosInstance, token, lastWrite,
                   listeners, returned, closure, heap, currentUser>>

NextManagers ==
    \/ \E o \in ManagerOps : \E args \in ArgsOf(o) : ManagerCall(o, args)
    \/ RespondSuccess(1)
    \/ \E f \in NetworkFailures : RespondFailure(1, f)
    \/ On(ERROR, "A")

SpecManagers == InitReady /\ [][NextManagers]_vars

\* C23: a manager operation called with a required argument missing or empty
\* throws a NeuralNexusError with the operation's validation code, with no
\* network exchange dispatched and no event emitted; with every required
\* argument present it goes on to its request.
C23_ValidationBeforeExchange ==
    lastOp.op = "manager" =>
        LET absent == \E a \in DOMAIN lastOp.args : lastOp.args[a] \in {Undef, Null, ""}
        IN /\ absent =>
                  /\ ~lastOp.ok
                  /\ IsNeuralNexusError(lastOp.raised)
                  /\ lastOp.raised.code = lastOp.code
                  /\ calls = <<>>
                  /\ lastOp.emissions = <<>>
           /\ ~absent =>
                  /\ lastOp.ok
                  /\ Len(calls) = 1
                  /\ calls[1].exchanges = 1

\* purchaseModel with a model id and an empty method, with an `error` listener
\* registered: INVALID_PURCHASE_DATA, nothing dispatched, nothing emitted.
C23_Witness ==
    /\ lastOp.op = "manager"
    /\ lastOp.name = "purchaseModel"
    /\ lastOp.args = <<"value", "">>
    /\ lastOp.raised = NeuralNexusError("Payment method is required",
                                        "INVALID_PURCHASE_DATA", NoDetails)
    /\ listeners[ERROR] # <<>>
    /\ calls = <<>>

(***************************************************************************)
(* The priority order of the error normalizer                              *)
(***************************************************************************)
\* A source of the normalizer that is present and not empty.
Given(v) == v # Undef /\ v # ""

AuthOps == {"login", "register", "logout"}

\* The arguments of a call: an argument not given, or given empty, is falsy.
Emails == {"", "ann@example.com"}
Passwords == {"", "secret"}
Usernames == {"", "ann"}

Credentials(name) ==
    CASE name = "login" -> [email : Emails, password : Passwords, username : {Undef}]
      [] name = "register" -> [email : Emails, password : Passwords, username : Usernames]
      [] name = "logout" -> [email : {Undef}, password : {Undef}, username : {Undef}]

\* if (!email || !password) ...   /   if (!email || !password || !username) ...
AuthInvalid(name, a) ==
    CASE name = "login" -> Falsy(a.email) \/ Falsy(a.password)
      [] name = "register" -> Falsy(a.email) \/ Falsy(a.password) \/ Falsy(a.username)
      [] name = "logout" -> FALSE

AuthValidationError(name) ==
    CASE name = "login" ->
             NeuralNexusError("Email and password are required",
                              "INVALID_CREDENTIALS", NoDetails)
      [] name = "register" ->
             NeuralNexusError("Email, password, and username are required",
                              "INVALID_REGISTRATION_DATA", NoDetails)

\* if (!response.data) throw ...
AuthNoDataError(name) ==
    CASE name = "login" ->
             NeuralNexusError("Invalid response from authentication server",
                              "AUTH_ERROR", NoDetails)
      [] name = "register" ->
             NeuralNexusError("Invalid response from registration server",
                              "REGISTRATION_ERROR", NoDetails)

\* The catch block of login, register and logout.
AuthCaught(name, e) ==
    IF IsNeuralNexusError(e) THEN e
    ELSE CASE name = "login" ->
                  NeuralNexusError("Authentication failed", "AUTH_ERROR",
                                   [kind |-> "raw", error |-> e])
           [] name = "register" ->
                  NeuralNexusError("Registration failed", "REGISTRATION_ERROR",
                                   [kind |-> "raw", error |-> e])
           [] name = "logout" ->
                  NeuralNexusError("Logout failed", "LOGOUT_ERROR",
                                   [kind |-> "raw", error |-> e])

\* The bodies the server answers with: one without `data`, and one whose data
\* carries a token and a user.
Users == {"ann", "bob"}
NoData == [hasData |-> FALSE, token |-> Undef, user |-> Undef]
AuthBodies == {NoData} \cup [hasData : {TRUE}, token : Tokens, user : Users]

\* What a caller can observe of the identity and of the cached user: the
\* token the client holds, the Authorization header a request dispatched now
\* would carry, and Auth.currentUser.
AuthState ==
    [token |-> token, header |-> RequestAuthorization(axiosInstance),
     currentUser |-> currentUser]

\* login / register / logout up to the await of client.post: the validation
\* throws before any exchange, and the post is dispatched otherwise.
AuthCall(name, a) ==
    /\ phase = "ready"
    /\ Len(calls) < MaxCalls
    /\ calls' = IF AuthInvalid(name, a) THEN calls
                ELSE Append(calls, [method |-> "post", stage |-> "awaiting",
                                    exchanges |-> 1, auth |-> name,
                                    Authorization |-> RequestAuthorization(axiosInstance)])
    /\ lastOp' = IF AuthInvalid(name, a)
                 THEN [op |-> "auth", name |-> name, ok |-> FALSE, prev |-> Prev,
                       cause |-> "validation", raised |-> AuthValidationError(name),
                       emissions |-> <<>>, before |-> AuthState]
                 ELSE [op |-> "dispatch", ok |-> TRUE, prev |-> Prev, method |-> "post",
                       Authorization |-> RequestAuthorization(axiosInstance)]
    /\ UNCHANGED <<phase, given, thrown, config, axiosInstance, token, lastWrite,
                   listeners, returned, closure, heap, currentUser>>

\* The post of call i fails with f: the interceptor and the catch block of
\* post run, then the catch block of the Auth method.
AuthRejected(i, f) ==
    /\ i \in 1..Len(calls)
    /\ calls[i].stage = "awaiting"
    /\ calls' = Remove(calls, i)
    /\ lastOp' = [op |-> "auth", name |-> calls[i].auth, ok |-> FALSE, prev |-> Prev,
                  cause |-> "rejected",
                  raised |-> AuthCaught(calls[i].auth,
                                        Caught("post",
                                               InterceptorRejection(f, listeners[ERROR]))),
                  emissions |-> InterceptorEmissions(f, listeners[ERROR]),
                  before |-> AuthState]
    /\ UNCHANGED <<phase, given, thrown, config, axiosInstance, token, lastWrite,
                   listeners, returned, closure, heap, currentUser>>

\* The emission that ends a login, register or logout that got its answer.
AuthEmission(user) ==
    Emission(AUTH_STATE_CHANGED, [type |-> "authState", user |-> user],
             listeners[AUTH_STATE_CHANGED])

\* The post of call i is answered with body b.  login and register throw on a
\* body without data; otherwise setToken, the assignment of currentUser and
\* the emission run in this order, and what a listener raises reaches the
\* catch block after them.  logout reads nothing of the body.
AuthResponded(i, b) ==
    /\ i \in 1..Len(calls)
    /\ calls[i].stage = "awaiting"
    /\ calls' = Remove(calls, i)
    /\ LET name == calls[i].auth
           user == IF name = "logout" THEN Null ELSE b.user
           e == AuthEmission(user)
       IN IF name # "logout" /\ ~b.hasData
          THEN /\ lastOp' = [op |-> "auth", name |-> name, ok |-> FALSE, prev |-> Prev,
                             cause |-> "nodata", raised |-> AuthNoDataError(name),
                             emissions |-> <<>>, before |-> AuthState]
               /\ UNCHANGED <<token, axiosInstance, lastWrite, currentUser>>
          ELSE /\ token' = IF name = "logout" THEN Null ELSE b.token
               /\ lastWrite' = IF name = "logout" THEN Null ELSE b.token
               /\ axiosInstance' =
                      WithCommonAuthorization(
                          axiosInstance,
                          Bearer(IF name = "logout" THEN config.apiKey ELSE b.token))
               /\ currentUser' = user
               /\ lastOp' = [op |-> "auth", name |-> name, prev |-> Prev,
                             ok |-> e.exception = NoError,
                             cause |-> IF e.exception = NoError THEN "none" ELSE "listener",
                             raised |-> IF e.exception = NoError THEN NoError
                                        ELSE AuthCaught(name, e.exception),
                             emissions |-> <<e>>, body |-> b, before |-> AuthState,
                             atEmission |-> [token |-> token', currentUser |-> user]]
    /\ UNCHANGED <<phase, given, thrown, config, listeners, returned, closure, heap>>

NextAuthFlow ==
    \/ \E name \in AuthOps : \E a \in Credentials(name) : AuthCall(name, a)
    \/ \E i \in 1..MaxCalls, f \in NetworkFailures : AuthRejected(i, f)
    \/ \E i \in 1..MaxCalls, b \in AuthBodies : AuthResponded(i, b)
    \/ \E l \in {"A", "R"} : On(AUTH_STATE_CHANGED, l)
    \/ \E l \in {"A", "R"} : Off(AUTH_STATE_CHANGED, l)

SpecAuthFlow == InitReady /\ [][NextAuthFlow]_vars

\* The identity as the value the client was last told to use.
WrittenIdentity(t) == IF t = Null THEN config.apiKey ELSE t

AuthStateChanges(emissions) ==
    Cardinality({k \in 1..Len(emissions) : emissions[k].event = AUTH_STATE_CHANGED})

\* C30: a login, register or logout that fails leaves the bearer identity
\* and the cached current user as they were and emits no authStateChanged; a
\* login or register that succeeds switches the identity to the returned
\* token, a logout that succeeds restores the configured apiKey, and each
\* emits authStateChanged exactly once, after the change.  The identity is
\* read here as the value last handed to the client.
C30_FailedAuthChangesNothing ==
    lastOp.op = "auth" =>
        /\ ~lastOp.ok =>
              /\ WrittenIdentity(token) = WrittenIdentity(lastOp.before.token)
              /\ currentUser = lastOp.before.currentUser
              /\ AuthStateChanges(lastOp.emissions) = 0
        /\ lastOp.ok =>
              /\ WrittenIdentity(token) =
                     IF lastOp.name = "logout" THEN config.apiKey ELSE lastOp.body.token
              /\ AuthStateChanges(lastOp.emissions) = 1
              /\ lastOp.atEmission.token = token

\* C30 with the identity read as the bearer value requests carry.
C30_HeaderFollowsAuth ==
    lastOp.op = "auth" =>
        /\ ~lastOp.ok =>
              /\ RequestAuthorization(axiosInstance) = lastOp.before.header
              /\ currentUser = lastOp.before.currentUser
              /\ AuthStateChanges(lastOp.emissions) = 0
        /\ lastOp.ok =>
              /\ RequestAuthorization(axiosInstance) =
                     Bearer(IF lastOp.name = "logout" THEN config.apiKey
                            ELSE lastOp.body.token)
              /\ AuthStateChanges(lastOp.emissions) = 1

\* What the code gives.  A validation failure, a rejected request and a
\* response without data change nothing and emit no authStateChanged.  An
\* answered call writes the token and the cached user and emits once, after
\* the writes; when an authStateChanged listener raises, the call fails with
\* the error of its catch block and the writes stay.  The header of the
\* requests is the configured apiKey throughout.
C30_Observed ==
    lastOp.op = "auth" =>
        /\ RequestAuthorization(axiosInstance) = Bearer(config.apiKey)
        /\ lastOp.cause \in {"validation", "rejected", "nodata"} =>
              /\ ~lastOp.ok
              /\ AuthState = lastOp.before
              /\ AuthStateChanges(lastOp.emissions) = 0
        /\ lastOp.cause \in {"none", "listener"} =>
              /\ token = (IF lastOp.name = "logout" THEN Null ELSE lastOp.body.token)
              /\ currentUser = (IF lastOp.name = "logout" THEN Null ELSE lastOp.body.user)
              /\ AuthStateChanges(lastOp.emissions) = 1
              /\ lastOp.atEmission = [token |-> token, currentUser |-> currentUser]
        /\ lastOp.cause = "listener" =>
              /\ ~lastOp.ok
              /\ HasRaiser(listeners[AUTH_STATE_CHANGED])
              /\ lastOp.raised.code =
                     (CASE lastOp.name = "login" -> "AUTH_ERROR"
                        [] lastOp.name = "register" -> "REGISTRATION_ERROR"
                        [] lastOp.name = "logout" -> "LOGOUT_ERROR")
        /\ lastOp.cause = "none" => lastOp.ok

====
